---- MODULE Spec2Model ----
(***************************************************************************)
(* A model of the quiz core of the flashcards application:                 *)
(*   - the distractor generator and question builder                       *)
(*     (src/utils/distractorGenerator.ts),                                 *)
(*   - the adaptive difficulty manager (adaptiveDifficulty.ts),            *)
(*   - the quiz session manager (src/utils/quizSessionManager.ts),         *)
(*   - the parts of settingsManager and progressTracker they call.         *)
(*                                                                         *)
(* Strings that the code computes with (card answers) are sequences of     *)
(* characters; a character is a one-letter string, and a precomposed       *)
(* accented letter is written as the letter followed by its mark ("a'",    *)
(* "a~", "i'", "e'"), still ONE element of the sequence, as it is one      *)
(* UTF-16 code unit for String.length.  Names that are only compared       *)
(* (verbs, tenses, ids) are plain strings, written without accents.        *)
(*                                                                         *)
(* Numbers with one decimal (multipliers, difficulty factors, the          *)
(* adjustment speed) are kept in tenths as integers; products of two such  *)
(* numbers are in hundredths.                                              *)
(***************************************************************************)
EXTENDS Integers, Sequences, FiniteSets, TLC

VARIABLES
    \* QuizSessionManager
    currentSession,      \* NoSession or the QuizSession record
    questions,           \* this.questions
    answers,             \* this.answers
    \* AdaptiveDifficultyManager
    performanceHistory,  \* this.performanceHistory (what the manager reads of each answer)
    currentDifficulty,   \* index of this.currentDifficulty in difficultyLevels, 0..3
    settings,            \* this.settings of the difficulty manager
    \* collaborators
    userSettings,        \* SettingsManager.settings (the adaptive fields and the question count)
    progress,            \* the stored user progress (localStorage, key flashcard_user_progress)
    now,                 \* the clock read by Date.now()
    lastCall,            \* the last public operation invoked and what it returned
    calls,               \* how many operations have been invoked so far
    \* inputs and results of the pure functions of distractorGenerator.ts
    card,                \* the card passed to generateDistractors / createQuizQuestion
    allCards,            \* the pool passed with it
    distractors,         \* the value generateDistractors returned, or Null before the call
    question,            \* the value createQuizQuestion returned, or Null before the call
    \* the quiz page and the question component it shows
    quizPage,            \* state of the Quiz page: quizActive, quizComplete, quizMode, timeLimit
    questionView,        \* state of QuizQuestion / FillInTheBlank and of its useQuizTimer
    \* StudySessionManager
    userProgress         \* this.userProgress: the copy of the stored progress it keeps

sessionVars == <<currentSession, questions, answers, performanceHistory,
                 currentDifficulty, settings, userSettings, progress, now, lastCall>>
pureVars == <<card, allCards, distractors, question>>
uiVars == <<quizPage, questionView>>
vars == <<currentSession, questions, answers, performanceHistory,
          currentDifficulty, settings, userSettings, progress, now, lastCall, calls,
          card, allCards, distractors, question, quizPage, questionView, userProgress>>

----------------------------------------------------------------------------
(* Bounds of the model *)

\* longest pool handed to the pure functions
MaxPoolLen == 5
\* number of extra rotations the shuffle may pick besides the identity
MaxShuffle == 1
\* largest questionCount a caller asks for
MaxQuestionCount == 2
\* longest performance history explored when the difficulty manager is driven alone
MaxHistory == 6
\* operations invoked on the session manager in one run
MaxCalls == 5
\* last instant of the clock
MaxTime == 1
\* largest time limit of a question, in seconds
MaxTimeLimit == 2
\* invocations of onTimeout counted for one question
MaxTimeouts == 2
\* quizzes completed on the Quiz page in one run
MaxQuizzes == 1

----------------------------------------------------------------------------
(* Sequence helpers: Array.prototype.includes, slice(0, n), [...new Set(a)],
   indexOf *)

Includes(seq, x) == \E i \in 1..Len(seq) : seq[i] = x

Take(seq, n) == IF Len(seq) <= n THEN seq ELSE SubSeq(seq, 1, n)

RECURSIVE Dedup(_)
Dedup(seq) ==
    IF seq = <<>> THEN <<>>
    ELSE LET front == Dedup(SubSeq(seq, 1, Len(seq) - 1))
             last == seq[Len(seq)]
         IN IF Includes(front, last) THEN front ELSE Append(front, last)

\* 0-based index of the first occurrence, -1 when absent
IndexOf(seq, x) ==
    IF Includes(seq, x)
    THEN (CHOOSE i \in 1..Len(seq) : seq[i] = x /\ \A j \in 1..(i - 1) : seq[j] # x) - 1
    ELSE -1

Distinct(seq) == \A i, j \in 1..Len(seq) : i # j => seq[i] # seq[j]

Min(a, b) == IF a <= b THEN a ELSE b
Max(a, b) == IF a >= b THEN a ELSE b

----------------------------------------------------------------------------
(* Strings *)

\* answer.normalize('NFD').replace(/[\u0300-\u036f]/g, '') on one character
Unaccent(c) ==
    CASE c = "a'" -> "a"
      [] c = "a~" -> "a"
      [] c = "e'" -> "e"
      [] c = "i'" -> "i"
      [] OTHER -> c

StripAccents(s) == [i \in 1..Len(s) |-> Unaccent(s[i])]

\* keys of commonMisspellings
s_comi == <<"c","o","m","i">>
s_comemos == <<"c","o","m","e","m","o","s">>
s_falava == <<"f","a","l","a","v","a">>
s_viviam == <<"v","i","v","i","a","m">>
s_fora == <<"f","o","r","a">>
s_tinhamos_feito == <<"t","i'","n","h","a","m","o","s"," ","f","e","i","t","o">>
s_viajarei == <<"v","i","a","j","a","r","e","i">>
s_trabalharao == <<"t","r","a","b","a","l","h","a","r","a~","o">>
s_estudaria == <<"e","s","t","u","d","a","r","i","a">>
s_comprariamos == <<"c","o","m","p","r","a","r","i'","a","m","o","s">>
s_seja == <<"s","e","j","a">>
s_tenhamos == <<"t","e","n","h","a","m","o","s">>
s_pudesse == <<"p","u","d","e","s","s","e">>
s_soubessemos == <<"s","o","u","b","e'","s","s","e","m","o","s">>
s_chegarem == <<"c","h","e","g","a","r","e","m">>
s_terminar == <<"t","e","r","m","i","n","a","r">>
s_tivesse_estudado == <<"t","i","v","e","s","s","e"," ","e","s","t","u","d","a","d","o">>
s_tivessemos_feito == <<"t","i","v","e'","s","s","e","m","o","s"," ","f","e","i","t","o">>
s_bebeste == <<"b","e","b","e","s","t","e">>
s_partieis == <<"p","a","r","t","i'","e","i","s">>

\* the variants listed for 'comi'
s_comei == <<"c","o","m","e","i">>
s_comu == <<"c","o","m","u">>
s_come == <<"c","o","m","e">>

\* every key but 'comi' lists the key itself four times
RepeatedKeys ==
    {s_comemos, s_falava, s_viviam, s_fora, s_tinhamos_feito, s_viajarei,
     s_trabalharao, s_estudaria, s_comprariamos, s_seja, s_tenhamos, s_pudesse,
     s_soubessemos, s_chegarem, s_terminar, s_tivesse_estudado,
     s_tivessemos_feito, s_bebeste, s_partieis}

\* commonMisspellings[answer] || []
commonMisspellings(answer) ==
    IF answer = s_comi THEN <<s_comei, s_comi, s_comu, s_come>>
    ELSE IF answer \in RepeatedKeys THEN <<answer, answer, answer, answer>>
    ELSE <<>>

\* other answers of the card universe
s_foras == <<"f","o","r","a","s">>
s_ia == <<"i","a">>
s_fara == <<"f","a","r","a'">>
s_pusera == <<"p","u","s","e","r","a">>
s_cantei == <<"c","a","n","t","e","i">>

----------------------------------------------------------------------------
(* Cards (types/card.ts): the fields the core reads *)

Card(id, verb, tense, correctAnswer, verbType) ==
    [id |-> id, verb |-> verb, tense |-> tense,
     correctAnswer |-> correctAnswer, verbType |-> verbType]

c_ir_fora == Card("ir_mqp_ele", "ir", "preterito_mais_que_perfeito", s_fora, "irregular")
c_ser_foras1 == Card("ser_mqp_tu_1", "ser", "preterito_mais_que_perfeito", s_foras, "irregular")
c_ser_foras2 == Card("ser_mqp_tu_2", "ser", "preterito_mais_que_perfeito", s_foras, "irregular")
c_comer_comi == Card("comer_pp_eu", "comer", "preterito_perfeito", s_comi, "regular")
c_ir_ia == Card("ir_pi_eu", "ir", "preterito_imperfeito", s_ia, "irregular")
c_fazer_fara == Card("fazer_fp_ele", "fazer", "futuro_do_presente", s_fara, "irregular")

\* two cards of verbs that the frequency table of the difficulty manager lacks
c_por_pusera == Card("por_mqp_ele", "por", "preterito_mais_que_perfeito", s_pusera, "irregular")
c_cantar_cantei == Card("cantar_pp_eu", "cantar", "preterito_perfeito", s_cantei, "regular")

CardUniverse ==
    {c_ir_fora, c_ser_foras1, c_ser_foras2, c_comer_comi, c_ir_ia, c_fazer_fara}

\* the pools of exactly n cards, no card twice, in every order
RECURSIVE PoolsOfLen(_)
PoolsOfLen(n) ==
    IF n = 0 THEN {<<>>}
    ELSE UNION {{Append(p, c) : c \in {d \in CardUniverse : ~Includes(p, d)}} :
                p \in PoolsOfLen(n - 1)}

Pools == UNION {PoolsOfLen(n) : n \in 0..Min(MaxPoolLen, Cardinality(CardUniverse))}

\* the correct answers of a list of cards, in order
AnswersOf(cards) == [i \in 1..Len(cards) |-> cards[i].correctAnswer]

----------------------------------------------------------------------------
(* distractorGenerator.ts *)

generateMisspellings(answer) ==
    LET misspellings == commonMisspellings(answer)
        withoutAccents == StripAccents(answer)
        s1 == IF withoutAccents # answer THEN <<withoutAccents>> ELSE <<>>
        s2 == IF Len(answer) > 3 THEN Append(s1, Append(answer, "s")) ELSE s1
    IN IF Len(misspellings) > 0 THEN Take(misspellings, 2) ELSE Take(s2, 2)

\* for (const x of items) { if (acc.length >= limit) break;
\*                          if (!acc.includes(x)) acc.push(x); }
RECURSIVE PushAbsent(_, _, _)
PushAbsent(acc, items, limit) ==
    IF items = <<>> \/ Len(acc) >= limit THEN acc
    ELSE PushAbsent(IF Includes(acc, Head(items)) THEN acc ELSE Append(acc, Head(items)),
                    Tail(items), limit)

\* for (const x of items) { if (acc.length >= limit) break; acc.push(x); }
RECURSIVE PushAll(_, _, _)
PushAll(acc, items, limit) ==
    IF items = <<>> \/ Len(acc) >= limit THEN acc
    ELSE PushAll(Append(acc, Head(items)), Tail(items), limit)

\* while (u.length < 3) { v = correctAnswer + 's';
\*                        if (!u.includes(v)) u.push(v); else break; }
RECURSIVE FillVariations(_, _)
FillVariations(uniqueDistractors, correctAnswer) ==
    LET simpleVariation == Append(correctAnswer, "s")
    IN IF Len(uniqueDistractors) < 3 /\ ~Includes(uniqueDistractors, simpleVariation)
       THEN FillVariations(Append(uniqueDistractors, simpleVariation), correctAnswer)
       ELSE uniqueDistractors

\* Priority 1: other conjugations of the same verb
SameVerbDistractors(c, pool) ==
    LET SameVerb(x) == /\ x.verb = c.verb
                       /\ x.id # c.id
                       /\ x.correctAnswer # c.correctAnswer
    IN PushAbsent(<<>>, AnswersOf(SelectSeq(pool, SameVerb)), 3)

\* Priority 2: misspellings of the correct answer
WithMisspellings(c, d) ==
    IF Len(d) < 3 THEN PushAbsent(d, generateMisspellings(c.correctAnswer), 3) ELSE d

\* Priority 3: same tense, different verb (the filter runs before the pushes)
WithSameTense(c, pool, d) ==
    LET SameTense(x) == /\ x.tense = c.tense
                        /\ x.verb # c.verb
                        /\ x.id # c.id
                        /\ x.correctAnswer # c.correctAnswer
                        /\ ~Includes(d, x.correctAnswer)
    IN IF Len(d) < 3 THEN PushAll(d, AnswersOf(SelectSeq(pool, SameTense)), 3) ELSE d

\* Priority 4: any other card (the filter runs before the pushes)
WithOtherCards(c, pool, d) ==
    LET Other(x) == /\ x.id # c.id
                    /\ x.correctAnswer # c.correctAnswer
                    /\ ~Includes(d, x.correctAnswer)
    IN IF Len(d) < 3 THEN PushAll(d, AnswersOf(SelectSeq(pool, Other)), 3) ELSE d

\* [...new Set(distractors)].slice(0, 3), then the filler loop
UniqueDistractors(d, correctAnswer) == FillVariations(Take(Dedup(d), 3), correctAnswer)

generateDistractors(c, pool) ==
    UniqueDistractors(
        WithOtherCards(c, pool,
            WithSameTense(c, pool,
                WithMisspellings(c, SameVerbDistractors(c, pool)))),
        c.correctAnswer)

\* the orders sort(() => Math.random() - 0.5) may leave the options in: the model
\* draws among the rotations by 0..MaxShuffle places
Shuffles(n) == 0..Min(MaxShuffle, Max(n - 1, 0))

Rotate(seq, r) ==
    [i \in 1..Len(seq) |-> seq[((i - 1 + r) % Len(seq)) + 1]]

\* for (const d of additional) { if (!u.includes(d)) { u.push(d);
\*                                                    if (u.length >= 4) break; } }
RECURSIVE PushAdditional(_, _)
PushAdditional(uniqueOptions, additional) ==
    IF additional = <<>> THEN uniqueOptions
    ELSE IF Includes(uniqueOptions, Head(additional))
         THEN PushAdditional(uniqueOptions, Tail(additional))
         ELSE IF Len(uniqueOptions) + 1 >= 4
              THEN Append(uniqueOptions, Head(additional))
              ELSE PushAdditional(Append(uniqueOptions, Head(additional)), Tail(additional))

\* one pass of the while loop of createQuizQuestion on fewer than 4 options: it
\* either reaches 4 or pushes the fallback and breaks
WithFallback(more, correctAnswer) ==
    IF Len(more) < 4 THEN Append(more, Append(correctAnswer, "x")) ELSE more

\* the while loop of createQuizQuestion, then slice(0, 4); additional is what the
\* second call of generateDistractors returns
FillOptions(uniqueOptions, additional, correctAnswer) ==
    Take(IF Len(uniqueOptions) >= 4 THEN uniqueOptions
         ELSE WithFallback(PushAdditional(uniqueOptions, additional), correctAnswer),
         4)

\* the options createQuizQuestion has collected before it shuffles them, from the
\* distractors generateDistractors returns (the same at both calls)
OptionsFrom(correctAnswer, ds) ==
    FillOptions(Dedup(<<correctAnswer>> \o ds), ds, correctAnswer)

QuestionOptions(c, pool) == OptionsFrom(c.correctAnswer, generateDistractors(c, pool))

\* the QuizQuestion createQuizQuestion returns for the shuffled options, clock at t
QuizQuestion(c, shuffledOptions, t) ==
    [id |-> "quiz_" \o c.id \o "_" \o ToString(t),
     options |-> shuffledOptions,
     correctAnswer |-> c.correctAnswer,
     correctAnswerIndex |-> IndexOf(shuffledOptions, c.correctAnswer),
     cardId |-> c.id]

\* the questions that shuffling the options may give
ShuffledQuestions(c, options, t) ==
    {QuizQuestion(c, Rotate(options, r), t) : r \in Shuffles(Len(options))}

\* createQuizQuestion(card, allCards) with the clock at t: the questions it may return
createQuizQuestion(c, pool, t) == ShuffledQuestions(c, QuestionOptions(c, pool), t)

\* a loop that does not look at usedCardIds: the variant C24's formula must reject
PickedCardsWithRepeats(cards, maxQuestions) ==
    {[i \in 1..maxQuestions |-> cards[f[i]]] : f \in [1..maxQuestions -> 1..Len(cards)]}

\* the cards the while loop of generateQuizQuestions may pick, in the order picked:
\* it picks a random card whose id is not used yet until it has maxQuestions cards
\* or no card is left
PickedCards(cards, maxQuestions) ==
    LET ids == {cards[i].id : i \in 1..Len(cards)}
        n == Min(maxQuestions, Cardinality(ids))
    IN {[i \in 1..n |-> cards[f[i]]] :
            f \in {g \in [1..n -> 1..Len(cards)] :
                      \A i, j \in 1..n : i # j => cards[g[i]].id # cards[g[j]].id}}

\* the lists of questions createQuizQuestion may build for the picked cards
RECURSIVE QuestionsFor(_, _, _)
QuestionsFor(picked, cards, t) ==
    IF picked = <<>> THEN {<<>>}
    ELSE {<<q>> \o rest : q \in createQuizQuestion(Head(picked), cards, t),
                          rest \in QuestionsFor(Tail(picked), cards, t)}

MaxQuestions(cards, count) == Min(count, Len(cards))

\* generateQuizQuestions(cards, count): the set of lists it may return
generateQuizQuestions(cards, count, t) ==
    IF Len(cards) = 0 THEN {<<>>}
    ELSE UNION {QuestionsFor(picked, cards, t) :
                    picked \in PickedCards(cards, MaxQuestions(cards, count))}

----------------------------------------------------------------------------
(* AdaptiveDifficultyManager *)

\* multipliers of difficultyLevels (beginner, intermediate, advanced, expert), in tenths
difficultyLevels == <<10, 13, 16, 20>>

\* this.tenseDifficulty[tense] || 1.0, in tenths
tenseDifficulty(tense) ==
    CASE tense = "preterito_perfeito" -> 10
      [] tense = "preterito_imperfeito" -> 12
      [] tense = "preterito_mais_que_perfeito" -> 18
      [] tense = "futuro_do_presente" -> 11
      [] tense = "futuro_do_preterito" -> 15
      [] tense = "presente_do_subjuntivo" -> 14
      [] tense = "imperfeito_do_subjuntivo" -> 17
      [] tense = "futuro_do_subjuntivo" -> 19
      [] tense = "pluscuamperfecto_do_subjuntivo" -> 20
      [] OTHER -> 10

\* this.verbTypeDifficulty[verbType] || 1.0, in tenths
verbTypeDifficulty(verbType) ==
    CASE verbType = "regular" -> 10
      [] verbType = "irregular" -> 15
      [] OTHER -> 10

\* this.verbFrequency[verb] || 2.0, in tenths
verbFrequency(verb) ==
    CASE verb \in {"ser", "estar", "ter", "ir", "fazer", "comer", "falar", "viver"} -> 10
      [] verb \in {"trabalhar", "estudar", "gostar"} -> 11
      [] verb \in {"precisar", "querer", "poder"} -> 12
      [] verb \in {"saber", "conhecer"} -> 13
      [] verb \in {"partir", "vir"} -> 14
      [] verb \in {"trazer", "dizer", "dar"} -> 15
      [] verb \in {"ver", "ouvir"} -> 16
      [] verb \in {"ler", "escrever"} -> 17
      [] verb \in {"abrir", "fechar"} -> 18
      [] verb \in {"comecar", "acabar"} -> 19
      [] OTHER -> 20

\* tenseDiff * 0.4 + verbTypeDiff * 0.3 + verbFreq * 0.3, in hundredths
calculateCardDifficulty(c) ==
    tenseDifficulty(c.tense) * 4 + verbTypeDifficulty(c.verbType) * 3
        + verbFrequency(c.verb) * 3

\* a range that leaves out its two ends: the variant C23's formula must reject
InDifficultyRangeExclusive(c, level) ==
    /\ calculateCardDifficulty(c) > difficultyLevels[level + 1] * 7
    /\ calculateCardDifficulty(c) < difficultyLevels[level + 1] * 13

\* cardDifficulty >= target * 0.7 && cardDifficulty <= target * 1.3, in hundredths
InDifficultyRange(c, level) ==
    /\ calculateCardDifficulty(c) >= difficultyLevels[level + 1] * 7
    /\ calculateCardDifficulty(c) <= difficultyLevels[level + 1] * 13

\* a filter that does not read enableAdaptiveDifficulty: the variant C22's formula
\* must reject
getFilteredCardsAlways(pool, s, level) ==
    LET Keep(c) == InDifficultyRange(c, level)
    IN SelectSeq(pool, Keep)

\* getFilteredCards(allCards) under settings s at tier level
getFilteredCards(pool, s, level) ==
    LET Keep(c) == InDifficultyRange(c, level)
    IN IF ~s.enableAdaptiveDifficulty THEN pool ELSE SelectSeq(pool, Keep)

\* history.slice(-n)
LastN(history, n) ==
    SubSeq(history, Max(Len(history) - n, 0) + 1, Len(history))

\* the for loop of calculateUserPerformance: the correct answers the list ends with
RECURSIVE streakCount(_)
streakCount(recentAnswers) ==
    IF recentAnswers # <<>> /\ recentAnswers[Len(recentAnswers)]
    THEN 1 + streakCount(SubSeq(recentAnswers, 1, Len(recentAnswers) - 1))
    ELSE 0

correctCount(recentAnswers) ==
    Cardinality({i \in 1..Len(recentAnswers) : recentAnswers[i]})

\* performance.recentAccuracy >= 0.8 && performance.streakCount >= 3
DoingWell(recentAnswers) ==
    /\ recentAnswers # <<>>
    /\ correctCount(recentAnswers) * 10 >= 8 * Len(recentAnswers)
    /\ streakCount(recentAnswers) >= 3

\* performance.recentAccuracy <= 0.4 && performance.streakCount <= -2
Struggling(recentAnswers) ==
    /\ (recentAnswers = <<>> \/ correctCount(recentAnswers) * 10 <= 4 * Len(recentAnswers))
    /\ streakCount(recentAnswers) <= -2

\* a rounding that drops the fraction: the variant C32's formula must reject
RoundDivDown(num, den) == num \div den

\* Math.round(num / den) for den > 0: halves round up
RoundDiv(num, den) == (2 * num + den) \div (2 * den)

\* updateDifficulty() without Math.min, Math.max and the final clamp: the variant
\* C17's formula must reject
updateDifficultyUnclamped(history, s, level) ==
    LET recentAnswers == LastN(history, s.performanceWindow)
        newLevelIndex ==
            IF DoingWell(recentAnswers) THEN level + 1
            ELSE IF Struggling(recentAnswers) THEN level - 1
            ELSE level
    IN IF newLevelIndex # level
       THEN RoundDiv(level * 10 + (newLevelIndex - level) * s.difficultyAdjustmentSpeed, 10)
       ELSE newLevelIndex

\* updateDifficulty(): the new index of currentDifficulty
updateDifficulty(history, s, level) ==
    LET recentAnswers == LastN(history, s.performanceWindow)
        currentLevelIndex == level
        newLevelIndex ==
            IF DoingWell(recentAnswers)
            THEN Min(currentLevelIndex + 1, Len(difficultyLevels) - 1)
            ELSE IF Struggling(recentAnswers)
                 THEN Max(currentLevelIndex - 1, 0)
                 ELSE currentLevelIndex
        \* (newLevelIndex - currentLevelIndex) * speed, speed in tenths
        adjustedIndex ==
            RoundDiv(currentLevelIndex * 10
                       + (newLevelIndex - currentLevelIndex) * s.difficultyAdjustmentSpeed,
                     10)
    IN IF newLevelIndex # currentLevelIndex
       THEN Max(0, Min(adjustedIndex, Len(difficultyLevels) - 1))
       ELSE newLevelIndex

\* the history after recordAnswer(answer): push, then one shift when over the window
PushHistory(history, isCorrect, s) ==
    LET pushed == Append(history, isCorrect)
    IN IF Len(pushed) > s.performanceWindow THEN Tail(pushed) ELSE pushed

\* a recordAnswer that adjusts the tier twice: the variant C18's formula must reject
LevelAfterAnswerTwice(history, isCorrect, s, level) ==
    LET h == PushHistory(history, isCorrect, s)
    IN IF Len(h) >= s.minimumQuestionsForAdjustment
       THEN updateDifficulty(h, s, updateDifficulty(h, s, level))
       ELSE level

\* a recordAnswer that adjusts the tier whatever the number of answers: the variant
\* C20's formula must reject
LevelAfterAnswerUngated(history, isCorrect, s, level) ==
    updateDifficulty(PushHistory(history, isCorrect, s), s, level)

\* the tier after recordAnswer(answer)
LevelAfterAnswer(history, isCorrect, s, level) ==
    LET h == PushHistory(history, isCorrect, s)
    IN IF Len(h) >= s.minimumQuestionsForAdjustment
       THEN updateDifficulty(h, s, level)
       ELSE level

----------------------------------------------------------------------------
(* Settings (settingsManager.ts): the adaptive fields *)

AdaptiveSettings(enabled, speed, minimum, window) ==
    [enableAdaptiveDifficulty |-> enabled,
     difficultyAdjustmentSpeed |-> speed,
     minimumQuestionsForAdjustment |-> minimum,
     performanceWindow |-> window]

\* DEFAULT_SETTINGS, and the initial settings of the difficulty manager
DEFAULT_SETTINGS == AdaptiveSettings(TRUE, 3, 5, 10)

\* the settings a user saves from the settings page: the defaults, the fastest
\* adjustment on the shortest window and the smallest minimum the page offers, and
\* adaptive difficulty off with speed 0.5 on the default minimum and window
SettingsChoices ==
    {DEFAULT_SETTINGS, AdaptiveSettings(TRUE, 10, 3, 5), AdaptiveSettings(FALSE, 5, 5, 10)}

\* what localStorage holds under flashcard_user_settings when the page loads: no
\* item, a text that is not JSON, or an object with the fields named in present
StoredSettings ==
    {[kind |-> "absent", present |-> {}, fields |-> DEFAULT_SETTINGS],
     [kind |-> "corrupt", present |-> {}, fields |-> DEFAULT_SETTINGS],
     [kind |-> "object", present |-> {}, fields |-> DEFAULT_SETTINGS],
     [kind |-> "object", present |-> {"difficultyAdjustmentSpeed"},
      fields |-> AdaptiveSettings(TRUE, 50, 5, 10)],
     [kind |-> "object", present |-> DOMAIN DEFAULT_SETTINGS,
      fields |-> AdaptiveSettings(TRUE, 10, 3, 5)]}

\* loadSettings(): { ...DEFAULT_SETTINGS, ...parsedSettings }, the defaults when
\* there is no item or JSON.parse throws
loadSettings(stored) ==
    IF stored.kind = "object"
    THEN [key \in DOMAIN DEFAULT_SETTINGS |->
             IF key \in stored.present THEN stored.fields[key] ELSE DEFAULT_SETTINGS[key]]
    ELSE DEFAULT_SETTINGS

----------------------------------------------------------------------------
(* progressTracker: the stored progress and recordQuizResult *)

\* DEFAULT_USER_PROGRESS (the study streak and its dates are left out)
DEFAULT_USER_PROGRESS ==
    [sessions |-> <<>>, wrongCards |-> <<>>, totalStudied |-> 0, totalCorrect |-> 0]

QuestionIdsOf(as) == [i \in 1..Len(as) |-> as[i].questionId]

\* recordQuizResult(quizResult) on the stored progress p: the progress it saves
recordQuizResult(p, quizResult) ==
    LET IsCorrect(a) == a.isCorrect
        IsWrong(a) == ~a.isCorrect
        session ==
            [cardsStudied |-> QuestionIdsOf(quizResult.answers),
             correctAnswers |-> QuestionIdsOf(SelectSeq(quizResult.answers, IsCorrect)),
             incorrectAnswers |-> QuestionIdsOf(SelectSeq(quizResult.answers, IsWrong)),
             timeSpent |-> quizResult.timeSpent]
    IN [sessions |-> Append(p.sessions, session),
        wrongCards |-> PushAbsent(p.wrongCards, session.incorrectAnswers,
                                  Len(p.wrongCards) + Len(session.incorrectAnswers) + 1),
        totalStudied |-> p.totalStudied + Len(session.cardsStudied),
        totalCorrect |-> p.totalCorrect + Len(session.correctAnswers)]

----------------------------------------------------------------------------
(* QuizSessionManager *)

\* null, and a present value, for the fields that may be null or absent
Null == <<>>
Some(x) == <<x>>
NoSession == Null

\* the pools a caller hands to startNewSession: none, one card, and two cards of
\* which the beginner tier keeps one
SessionPools == {<<>>, <<c_ir_ia>>, <<c_comer_comi, c_ir_fora>>}

\* a QuizAnswer: the fields the core reads
QuizAnswer(questionId, isCorrect) == [questionId |-> questionId, isCorrect |-> isCorrect]

Call(op, args, result) == [op |-> op, args |-> args, result |-> result]

\* a getCurrentQuestion that ignores the answers: the variant C16's formula must reject
getCurrentQuestionFirst ==
    IF currentSession = NoSession \/ questions = <<>>
    THEN Null
    ELSE Some(questions[1])

\* getCurrentQuestion()
getCurrentQuestion ==
    IF currentSession = NoSession \/ Len(answers) >= Len(questions)
    THEN Null
    ELSE Some(questions[Len(answers) + 1])

\* a completion test that ignores the answers: the variant C13's formula must reject
isQuizCompleteAlways == TRUE

\* isQuizComplete()
isQuizComplete == Len(answers) >= Len(questions)

\* the lifecycle state a value of the currentSession field stands for
LifecycleState(session) ==
    IF session = NoSession THEN "NoSession"
    ELSE IF session[1].isCompleted THEN "Completed"
    ELSE "Active"

\* the answers a caller may pass: for the question on display (none: no id), right or wrong
AnswerInputs ==
    {QuizAnswer(IF getCurrentQuestion = Null THEN "stale" ELSE getCurrentQuestion[1].id, b) :
        b \in BOOLEAN}

\* startNewSession without the difficulty filter: the variant C7's formula must reject
CardsToUseUnfiltered(cards, us, s, level) == cards

\* startNewSession without the fallback to the given pool: the variant C21's formula
\* must reject
CardsToUseWithoutFallback(cards, us, s, level) ==
    IF us.enableAdaptiveDifficulty THEN getFilteredCards(cards, s, level) ELSE cards

\* the pool startNewSession builds its questions from
CardsToUse(cards, us, s, level) ==
    LET filteredCards == getFilteredCards(cards, s, level)
    IN IF us.enableAdaptiveDifficulty
       THEN (IF Len(filteredCards) > 0 THEN filteredCards ELSE cards)
       ELSE cards

\* startNewSession(cards, questionCount)
StartNewSession(cards, questionCount) ==
    \* adaptiveDifficultyManager.updateSettings(adaptiveSettings): all four fields
    /\ settings' = userSettings
    /\ \E qs \in generateQuizQuestions(
                    CardsToUse(cards, userSettings, userSettings, currentDifficulty),
                    questionCount, now) :
          /\ questions' = qs
          /\ currentSession' = Some([id |-> <<"quiz", now>>,
                                     startTime |-> now,
                                     endTime |-> Null,
                                     totalQuestions |-> Len(qs),
                                     isCompleted |-> FALSE])
    /\ answers' = <<>>
    /\ lastCall' = Call("startNewSession", <<cards, questionCount>>, Null)
    /\ UNCHANGED <<performanceHistory, currentDifficulty, userSettings, progress, now>>
    /\ UNCHANGED pureVars
    /\ UNCHANGED userProgress

\* an early return that forgets the completed session: the variant C10's formula
\* must reject
RecordAnswerIgnoredWithoutSession == currentSession = NoSession

\* the early return of recordAnswer
RecordAnswerIgnored == currentSession = NoSession \/ currentSession[1].isCompleted

\* a recordAnswer that puts the answer in front of the list: the variant C15's
\* formula must reject
RecordAnswerPrepending(answer) ==
    /\ lastCall' = Call("recordAnswer", <<answer>>, Null)
    /\ IF RecordAnswerIgnored
       THEN UNCHANGED <<answers, performanceHistory, currentDifficulty>>
       ELSE /\ answers' = <<answer>> \o answers
            /\ performanceHistory' =
                   PushHistory(performanceHistory, answer.isCorrect, settings)
            /\ currentDifficulty' =
                   LevelAfterAnswer(performanceHistory, answer.isCorrect, settings,
                                    currentDifficulty)
    /\ UNCHANGED <<currentSession, questions, settings, userSettings, progress, now>>
    /\ UNCHANGED pureVars
    /\ UNCHANGED userProgress
    /\ UNCHANGED uiVars

\* recordAnswer(answer), with adaptiveDifficultyManager.recordAnswer(answer)
RecordAnswer(answer) ==
    /\ lastCall' = Call("recordAnswer", <<answer>>, Null)
    /\ IF RecordAnswerIgnored
       THEN UNCHANGED <<answers, performanceHistory, currentDifficulty>>
       ELSE /\ answers' = Append(answers, answer)
            /\ performanceHistory' =
                   PushHistory(performanceHistory, answer.isCorrect, settings)
            /\ currentDifficulty' =
                   LevelAfterAnswer(performanceHistory, answer.isCorrect, settings,
                                    currentDifficulty)
    /\ UNCHANGED <<currentSession, questions, settings, userSettings, progress, now>>
    /\ UNCHANGED pureVars
    /\ UNCHANGED userProgress
    /\ UNCHANGED uiVars

\* an early return that forgets the unanswered questions: the variant C11's formula
\* must reject
CompleteSessionRefusedWithoutSession == currentSession = NoSession

\* the early return of completeSession
CompleteSessionRefused == currentSession = NoSession \/ ~isQuizComplete

\* the QuizResult completeSession builds at instant t
QuizResultOf(session, as, t) ==
    LET correctAnswers == Cardinality({i \in 1..Len(as) : as[i].isCorrect})
        totalQuestions == Len(as)
    IN [sessionId |-> session.id,
        score |-> correctAnswers,
        totalQuestions |-> totalQuestions,
        \* the fraction (correctAnswers / totalQuestions) * 100, or 0
        accuracy |-> IF totalQuestions > 0 THEN <<correctAnswers * 100, totalQuestions>>
                     ELSE <<0, 1>>,
        timeSpent |-> t - session.startTime,
        answers |-> as]

\* completeSession()
CompleteSession ==
    IF CompleteSessionRefused
    THEN /\ lastCall' = Call("completeSession", <<>>, Null)
         /\ UNCHANGED <<currentSession, questions, answers, performanceHistory,
                        currentDifficulty, settings, userSettings, progress, now>>
         /\ UNCHANGED pureVars
         /\ UNCHANGED userProgress
         /\ UNCHANGED uiVars
    ELSE LET result == QuizResultOf(currentSession[1], answers, now)
         IN /\ currentSession' = Some([currentSession[1] EXCEPT !.endTime = Some(now),
                                                                !.isCompleted = TRUE])
            /\ progress' = recordQuizResult(progress, result)
            /\ lastCall' = Call("completeSession", <<>>, Some(result))
            /\ UNCHANGED <<questions, answers, performanceHistory, currentDifficulty,
                           settings, userSettings, now>>
            /\ UNCHANGED pureVars
            /\ UNCHANGED userProgress
            /\ UNCHANGED uiVars

\* a reset that forgets the answer list: the variant C14's formula must reject
ResetSessionKeepingAnswers ==
    /\ currentSession' = NoSession
    /\ questions' = <<>>
    /\ lastCall' = Call("resetSession", <<>>, Null)
    /\ UNCHANGED <<answers, performanceHistory, currentDifficulty, settings, userSettings,
                   progress, now>>
    /\ UNCHANGED pureVars
    /\ UNCHANGED userProgress
    /\ UNCHANGED uiVars

\* a reset that also resets the difficulty manager: the variant C36's formula must
\* reject
ResetSessionResettingDifficulty ==
    /\ currentSession' = NoSession
    /\ questions' = <<>>
    /\ answers' = <<>>
    /\ performanceHistory' = <<>>
    /\ currentDifficulty' = 0
    /\ lastCall' = Call("resetSession", <<>>, Null)
    /\ UNCHANGED <<settings, userSettings, progress, now>>
    /\ UNCHANGED pureVars
    /\ UNCHANGED userProgress
    /\ UNCHANGED uiVars

\* resetSession()
ResetSession ==
    /\ currentSession' = NoSession
    /\ questions' = <<>>
    /\ answers' = <<>>
    /\ lastCall' = Call("resetSession", <<>>, Null)
    /\ UNCHANGED <<performanceHistory, currentDifficulty, settings, userSettings,
                   progress, now>>
    /\ UNCHANGED pureVars
    /\ UNCHANGED userProgress
    /\ UNCHANGED uiVars

\* resetAdaptiveDifficulty(): adaptiveDifficultyManager.resetDifficulty()
ResetAdaptiveDifficulty ==
    /\ currentDifficulty' = 0
    /\ performanceHistory' = <<>>
    /\ lastCall' = Call("resetAdaptiveDifficulty", <<>>, Null)
    /\ UNCHANGED <<currentSession, questions, answers, settings, userSettings,
                   progress, now>>
    /\ UNCHANGED pureVars
    /\ UNCHANGED userProgress
    /\ UNCHANGED uiVars

\* settingsManager.updateSettings(updates), from the settings page
UpdateSettings(updates) ==
    /\ userSettings' = updates
    /\ lastCall' = Call("updateSettings", <<updates>>, Null)
    /\ UNCHANGED <<currentSession, questions, answers, performanceHistory,
                   currentDifficulty, settings, progress, now>>
    /\ UNCHANGED pureVars
    /\ UNCHANGED userProgress
    /\ UNCHANGED uiVars

\* adaptiveDifficultyManager.recordAnswer(answer), called on the manager itself
AdaptiveRecordAnswer(isCorrect) ==
    /\ performanceHistory' = PushHistory(performanceHistory, isCorrect, settings)
    /\ currentDifficulty' =
           LevelAfterAnswer(performanceHistory, isCorrect, settings, currentDifficulty)
    /\ lastCall' = Call("adaptiveDifficultyManager.recordAnswer", <<isCorrect>>, Null)
    /\ UNCHANGED <<currentSession, questions, answers, settings, userSettings,
                   progress, now>>
    /\ UNCHANGED pureVars
    /\ UNCHANGED userProgress
    /\ UNCHANGED uiVars

\* adaptiveDifficultyManager.updateSettings(newSettings), all four fields given
AdaptiveUpdateSettings(newSettings) ==
    /\ settings' = newSettings
    /\ lastCall' = Call("adaptiveDifficultyManager.updateSettings", <<newSettings>>, Null)
    /\ UNCHANGED <<currentSession, questions, answers, performanceHistory,
                   currentDifficulty, userSettings, progress, now>>
    /\ UNCHANGED pureVars
    /\ UNCHANGED userProgress
    /\ UNCHANGED uiVars

\* adaptiveDifficultyManager.resetDifficulty()
ResetDifficulty ==
    /\ currentDifficulty' = 0
    /\ performanceHistory' = <<>>
    /\ lastCall' = Call("adaptiveDifficultyManager.resetDifficulty", <<>>, Null)
    /\ UNCHANGED <<currentSession, questions, answers, settings, userSettings,
                   progress, now>>
    /\ UNCHANGED pureVars
    /\ UNCHANGED userProgress
    /\ UNCHANGED uiVars

\* adaptiveDifficultyManager.getFilteredCards(pool), called on the manager itself
GetFilteredCards(pool) ==
    /\ lastCall' = Call("adaptiveDifficultyManager.getFilteredCards", <<pool>>,
                        getFilteredCards(pool, settings, currentDifficulty))
    /\ UNCHANGED <<currentSession, questions, answers, performanceHistory,
                   currentDifficulty, settings, userSettings, progress, now>>
    /\ UNCHANGED pureVars
    /\ UNCHANGED userProgress
    /\ UNCHANGED uiVars

\* a caller reads getCurrentQuestion()
GetCurrentQuestion ==
    /\ lastCall' = Call("getCurrentQuestion", <<>>, getCurrentQuestion)
    /\ UNCHANGED <<currentSession, questions, answers, performanceHistory,
                   currentDifficulty, settings, userSettings, progress, now>>
    /\ UNCHANGED pureVars
    /\ UNCHANGED userProgress
    /\ UNCHANGED uiVars

\* a getSessionStats whose incorrectAnswers counts the questions not answered correctly
getSessionStatsOverQuestions(session, as, t) ==
    IF session = NoSession THEN Null
    ELSE LET correctAnswers == Cardinality({i \in 1..Len(as) : as[i].isCorrect})
         IN Some([currentQuestion |-> Len(as) + 1,
                  totalQuestions |-> session[1].totalQuestions,
                  correctAnswers |-> correctAnswers,
                  incorrectAnswers |-> Len(questions) - correctAnswers,
                  accuracy |-> IF Len(as) > 0 THEN <<correctAnswers * 100, Len(as)>>
                               ELSE <<0, 1>>,
                  timeSpent |-> t - session[1].startTime])

\* the value of getSessionStats() at instant t
getSessionStats(session, as, t) ==
    IF session = NoSession THEN Null
    ELSE LET correctAnswers == Cardinality({i \in 1..Len(as) : as[i].isCorrect})
             incorrectAnswers == Cardinality({i \in 1..Len(as) : ~as[i].isCorrect})
         IN Some([currentQuestion |-> Len(as) + 1,
                  totalQuestions |-> session[1].totalQuestions,
                  correctAnswers |-> correctAnswers,
                  incorrectAnswers |-> incorrectAnswers,
                  \* the fraction (correctAnswers / answers.length) * 100, or 0
                  accuracy |-> IF Len(as) > 0 THEN <<correctAnswers * 100, Len(as)>>
                               ELSE <<0, 1>>,
                  timeSpent |-> t - session[1].startTime])

\* getSessionStats()
GetSessionStats ==
    /\ lastCall' = Call("getSessionStats", <<>>, getSessionStats(currentSession, answers, now))
    /\ UNCHANGED <<currentSession, questions, answers, performanceHistory,
                   currentDifficulty, settings, userSettings, progress, now>>
    /\ UNCHANGED pureVars
    /\ UNCHANGED userProgress
    /\ UNCHANGED uiVars

\* isQuizComplete()
IsQuizComplete ==
    /\ lastCall' = Call("isQuizComplete", <<>>, Some(isQuizComplete))
    /\ UNCHANGED <<currentSession, questions, answers, performanceHistory,
                   currentDifficulty, settings, userSettings, progress, now>>
    /\ UNCHANGED pureVars
    /\ UNCHANGED userProgress
    /\ UNCHANGED uiVars

\* getAllAnswers(): a copy of the answers
GetAllAnswers ==
    /\ lastCall' = Call("getAllAnswers", <<>>, answers)
    /\ UNCHANGED <<currentSession, questions, answers, performanceHistory,
                   currentDifficulty, settings, userSettings, progress, now>>
    /\ UNCHANGED pureVars
    /\ UNCHANGED userProgress
    /\ UNCHANGED uiVars

\* time passes
Tick ==
    /\ now < MaxTime
    /\ now' = now + 1
    /\ UNCHANGED <<currentSession, questions, answers, performanceHistory,
                   currentDifficulty, settings, userSettings, progress, lastCall>>
    /\ UNCHANGED pureVars
    /\ UNCHANGED userProgress
    /\ UNCHANGED uiVars

----------------------------------------------------------------------------
(* The Quiz page, QuizQuestion, FillInTheBlank and useQuizTimer *)

\* the Quiz page before a quiz is started; timeLimit is the prop it passes to the
\* question component, 0 standing for undefined (enableTimer off)
StartScreen ==
    [quizActive |-> FALSE, quizComplete |-> FALSE, quizMode |-> "multiple-choice",
     timeLimit |-> 0]

\* no question component is shown
NoView ==
    [hasAnswered |-> FALSE, selectedAnswer |-> Null, userAnswer |-> <<>>,
     timeRemaining |-> 0, timer |-> FALSE, pending |-> Null, timeouts |-> 0]

\* the component on a new question (question.id, card.id changed): its state is
\* reset, the timer counts from timeLimit, and no onTimeout was invoked for it
MountedView(timeLimit) ==
    [NoView EXCEPT !.timeRemaining = timeLimit, !.timer = (timeLimit > 0)]

\* the countdown effect after a render: it sets an interval unless there is no time
\* limit or the question is answered
Rendered(view, timeLimit) ==
    [view EXCEPT !.timer = (timeLimit > 0 /\ ~view.hasAnswered)]

\* the cards the Quiz page loaded
QuizCards == <<c_comer_comi, c_ir_ia>>

\* a text that matches no answer
s_wrong == <<"x">>

\* what the user may type into FillInTheBlank
TypedAnswers == {QuizCards[i].correctAnswer : i \in 1..Len(QuizCards)} \cup {s_wrong}

\* the card FillInTheBlank shows for question q
CardOf(q) ==
    LET same == {i \in 1..Len(QuizCards) : QuizCards[i].id = q.cardId}
    IN IF same = {} THEN QuizCards[1] ELSE QuizCards[CHOOSE i \in same : TRUE]

\* the quiz mode buttons of the start screen
SelectQuizMode(mode) ==
    /\ ~quizPage.quizActive
    /\ quizPage' = [quizPage EXCEPT !.quizMode = mode]
    /\ UNCHANGED <<questionView, calls>>
    /\ UNCHANGED sessionVars
    /\ UNCHANGED pureVars
    /\ UNCHANGED userProgress

\* startQuiz(), with the question count and the time limit the settings hold
StartQuiz(questionCount, timeLimit) ==
    /\ ~quizPage.quizActive
    /\ Len(progress.sessions) < MaxQuizzes
    /\ StartNewSession(QuizCards, questionCount)
    /\ quizPage' = [quizPage EXCEPT !.quizActive = TRUE, !.quizComplete = FALSE,
                                    !.timeLimit = timeLimit]
    /\ questionView' = MountedView(timeLimit)
    /\ UNCHANGED calls

\* handleAnswer(answer) of the Quiz page: recordAnswer, then completeSession when
\* the quiz is complete
QuizHandleAnswer(answer) ==
    LET recorded == Append(answers, answer)
        complete == Len(recorded) >= Len(questions)
        result == QuizResultOf(currentSession[1], recorded, now)
    IN /\ answers' = recorded
       /\ performanceHistory' = PushHistory(performanceHistory, answer.isCorrect, settings)
       /\ currentDifficulty' =
              LevelAfterAnswer(performanceHistory, answer.isCorrect, settings,
                               currentDifficulty)
       /\ IF complete
          THEN /\ currentSession' = Some([currentSession[1] EXCEPT !.endTime = Some(now),
                                                                   !.isCompleted = TRUE])
               /\ progress' = recordQuizResult(progress, result)
               /\ lastCall' = Call("completeSession", <<>>, Some(result))
               /\ quizPage' = [quizPage EXCEPT !.quizActive = FALSE, !.quizComplete = TRUE]
               /\ questionView' = NoView
          ELSE /\ lastCall' = Call("recordAnswer", <<answer>>, Null)
               /\ questionView' = MountedView(quizPage.timeLimit)
               /\ UNCHANGED <<currentSession, progress, quizPage>>
       /\ UNCHANGED <<questions, settings, userSettings, now, calls>>
       /\ UNCHANGED pureVars
       /\ UNCHANGED userProgress

\* the changes of a question component that reach no other state
ViewBecomes(view) ==
    /\ questionView' = view
    /\ UNCHANGED <<quizPage, calls>>
    /\ UNCHANGED sessionVars
    /\ UNCHANGED pureVars
    /\ UNCHANGED userProgress

\* QuizQuestion.handleAnswer(answerIndex): a click on an option
SelectOption(answerIndex) ==
    /\ quizPage.quizActive /\ quizPage.quizMode = "multiple-choice"
    /\ ~questionView.hasAnswered
    /\ ViewBecomes([questionView EXCEPT !.selectedAnswer = Some(answerIndex),
                                        !.hasAnswered = TRUE, !.timer = FALSE])

\* QuizQuestion.handleContinue(): the Continue button
Continue ==
    /\ quizPage.quizActive /\ quizPage.quizMode = "multiple-choice"
    /\ questionView.hasAnswered /\ questionView.selectedAnswer # Null
    /\ QuizHandleAnswer(QuizAnswer(getCurrentQuestion[1].id,
                                   questionView.selectedAnswer[1]
                                      = getCurrentQuestion[1].correctAnswerIndex))

\* the input of FillInTheBlank changes
TypeAnswer(text) ==
    /\ quizPage.quizActive /\ quizPage.quizMode = "fill-in-blank"
    /\ ~questionView.hasAnswered
    /\ questionView.userAnswer # text
    /\ ViewBecomes(Rendered([questionView EXCEPT !.userAnswer = text],
                            quizPage.timeLimit))

\* the state of FillInTheBlank after handleSubmit() went past its first line
Submitted(view, c) ==
    [view EXCEPT !.hasAnswered = TRUE, !.timer = FALSE,
                 !.pending = Some(QuizAnswer(c.id, view.userAnswer = c.correctAnswer))]

\* FillInTheBlank.handleSubmit() from the Enter key or the Submit button
Submit ==
    /\ quizPage.quizActive /\ quizPage.quizMode = "fill-in-blank"
    /\ ~questionView.hasAnswered /\ questionView.userAnswer # <<>>
    /\ ViewBecomes(Submitted(questionView, CardOf(getCurrentQuestion[1])))

\* the setTimeout of handleSubmit fires: onAnswer(quizAnswer)
FeedbackElapsed ==
    /\ quizPage.quizActive
    /\ questionView.pending # Null
    /\ QuizHandleAnswer(questionView.pending[1])

\* onTimeout of QuizQuestion: handleAnswer(selectedAnswer || 0)
QuizQuestionTimedOut(view) ==
    [view EXCEPT !.selectedAnswer = Some(IF @ = Null THEN 0 ELSE @[1]),
                 !.hasAnswered = TRUE, !.timer = FALSE]

\* onTimeout of FillInTheBlank: handleSubmit(), which returns at once on an empty
\* input; the component is rendered again, and the interval set again, only when
\* timeRemaining changed
FillInTheBlankTimedOut(view, c, timeLimit) ==
    IF view.userAnswer = <<>>
    THEN (IF view.timeRemaining # 0 THEN Rendered(view, timeLimit)
          ELSE [view EXCEPT !.timer = FALSE])
    ELSE Submitted(view, c)

\* the interval callback of useQuizTimer
TimerTick ==
    /\ quizPage.quizActive
    /\ questionView.timer
    /\ IF questionView.timeRemaining > 1
       THEN ViewBecomes([questionView EXCEPT !.timeRemaining = @ - 1])
       ELSE /\ questionView.timeouts < MaxTimeouts
            /\ LET timedOut ==
                       IF quizPage.quizMode = "multiple-choice"
                       THEN QuizQuestionTimedOut(questionView)
                       ELSE FillInTheBlankTimedOut(questionView,
                                                   CardOf(getCurrentQuestion[1]),
                                                   quizPage.timeLimit)
               IN ViewBecomes([timedOut EXCEPT !.timeRemaining = 0,
                                               !.timeouts = @ + 1])

\* the interval of the Quiz page: setSessionStats, which renders the page and the
\* question component again
StatsTick ==
    /\ quizPage.quizActive
    /\ ViewBecomes(Rendered(questionView, quizPage.timeLimit))

----------------------------------------------------------------------------
(* The pure functions, applied to drawn inputs *)

GenerateDistractors ==
    /\ distractors = Null
    /\ distractors' = Some(generateDistractors(card, allCards))
    /\ UNCHANGED <<card, allCards, question>>
    /\ UNCHANGED sessionVars
    /\ UNCHANGED uiVars
    /\ UNCHANGED userProgress

CreateQuizQuestion ==
    /\ question = Null
    /\ \E q \in createQuizQuestion(card, allCards, now) : question' = Some(q)
    /\ UNCHANGED <<card, allCards, distractors>>
    /\ UNCHANGED sessionVars
    /\ UNCHANGED uiVars
    /\ UNCHANGED userProgress

----------------------------------------------------------------------------
(* StudySessionManager: the wrong cards list, kept in this.userProgress and
   written to the storage key of the progress tracker *)

\* addToWrongCards(cardId): push and saveUserProgress() when the id is not listed
AddToWrongCards(cardId) ==
    /\ lastCall' = Call("addToWrongCards", <<cardId>>, Null)
    /\ IF Includes(userProgress.wrongCards, cardId)
       THEN UNCHANGED <<userProgress, progress>>
       ELSE /\ userProgress' = [userProgress EXCEPT !.wrongCards = Append(@, cardId)]
            /\ progress' = userProgress'
    /\ UNCHANGED <<currentSession, questions, answers, performanceHistory,
                   currentDifficulty, settings, userSettings, now>>
    /\ UNCHANGED pureVars
    /\ UNCHANGED uiVars

\* removeFromWrongCards(cardId): filter, then saveUserProgress()
RemoveFromWrongCards(cardId) ==
    /\ lastCall' = Call("removeFromWrongCards", <<cardId>>, Null)
    /\ LET Other(id) == id # cardId
       IN userProgress' = [userProgress EXCEPT !.wrongCards = SelectSeq(@, Other)]
    /\ progress' = userProgress'
    /\ UNCHANGED <<currentSession, questions, answers, performanceHistory,
                   currentDifficulty, settings, userSettings, now>>
    /\ UNCHANGED pureVars
    /\ UNCHANGED uiVars

\* clearWrongCards(): empty the list, then saveUserProgress()
ClearWrongCards ==
    /\ lastCall' = Call("clearWrongCards", <<>>, Null)
    /\ userProgress' = [userProgress EXCEPT !.wrongCards = <<>>]
    /\ progress' = userProgress'
    /\ UNCHANGED <<currentSession, questions, answers, performanceHistory,
                   currentDifficulty, settings, userSettings, now>>
    /\ UNCHANGED pureVars
    /\ UNCHANGED uiVars

\* a fill loop that goes round again instead of pushing the fallback and breaking
FillIterationWithoutBreak ==
    /\ lastCall.op = "createQuizQuestion"
    /\ lastCall.result = Null
    /\ LET uniqueOptions == lastCall.args[1]
           more == PushAdditional(uniqueOptions, distractors[1])
       IN lastCall' =
              IF Len(uniqueOptions) >= 4
              THEN Call("createQuizQuestion", <<uniqueOptions>>, Some(Take(uniqueOptions, 4)))
              ELSE Call("createQuizQuestion", <<more>>, Null)
    /\ UNCHANGED <<currentSession, questions, answers, performanceHistory,
                   currentDifficulty, settings, userSettings, progress, now, calls>>
    /\ UNCHANGED pureVars
    /\ UNCHANGED userProgress
    /\ UNCHANGED uiVars

\* one evaluation of while (uniqueOptions.length < 4) in createQuizQuestion, with
\* its body: the loop is left with 4 options, or after the fallback is pushed
FillIteration ==
    /\ lastCall.op = "createQuizQuestion"
    /\ lastCall.result = Null
    /\ LET uniqueOptions == lastCall.args[1]
           more == PushAdditional(uniqueOptions, distractors[1])
           fallback == Append(more, Append(card.correctAnswer, "x"))
       IN lastCall' =
              IF Len(uniqueOptions) >= 4
              THEN Call("createQuizQuestion", <<uniqueOptions>>, Some(Take(uniqueOptions, 4)))
              ELSE IF Len(more) < 4
                   THEN Call("createQuizQuestion", <<fallback>>, Some(Take(fallback, 4)))
                   ELSE Call("createQuizQuestion", <<more>>, Null)
    /\ UNCHANGED <<currentSession, questions, answers, performanceHistory,
                   currentDifficulty, settings, userSettings, progress, now, calls>>
    /\ UNCHANGED pureVars
    /\ UNCHANGED userProgress
    /\ UNCHANGED uiVars

\* one evaluation of while (questions.length < maxQuestions) in
\* generateQuizQuestions, with its body: the loop is left when enough questions are
\* built or no card with an unused id remains. Of each question built the loop
\* keeps here the cardId, the one field usedCardIds is made of; createQuizQuestion
\* itself returns once its fill loop has (FillIteration)
PickIteration ==
    /\ lastCall.op = "generateQuizQuestions"
    /\ lastCall.result = Null
    /\ LET count == lastCall.args[1]
           built == lastCall.args[2]
           maxQuestions == Min(count, Len(allCards))
           Unused(c) == \A i \in 1..Len(built) : built[i].cardId # c.id
           availableCards == SelectSeq(allCards, Unused)
       IN IF Len(built) >= maxQuestions \/ Len(availableCards) = 0
          THEN lastCall' = Call("generateQuizQuestions", <<count, built>>, Some(built))
          ELSE \E i \in 1..Len(availableCards) :
                  lastCall' = Call("generateQuizQuestions",
                                   <<count, Append(built, [cardId |-> availableCards[i].id])>>,
                                   Null)
    /\ UNCHANGED <<currentSession, questions, answers, performanceHistory,
                   currentDifficulty, settings, userSettings, progress, now, calls>>
    /\ UNCHANGED pureVars
    /\ UNCHANGED userProgress
    /\ UNCHANGED uiVars

----------------------------------------------------------------------------
(* Specifications *)

\* the state after the modules are loaded: no session, beginner tier, default
\* settings, the quiz page on its start screen
Constructed ==
    /\ quizPage = StartScreen
    /\ questionView = NoView
    /\ currentSession = NoSession
    /\ questions = <<>>
    /\ answers = <<>>
    /\ performanceHistory = <<>>
    /\ currentDifficulty = 0
    /\ settings = DEFAULT_SETTINGS
    /\ userSettings = DEFAULT_SETTINGS
    /\ progress = DEFAULT_USER_PROGRESS
    /\ userProgress = DEFAULT_USER_PROGRESS
    /\ now = 0
    /\ lastCall = Call("none", <<>>, Null)
    /\ calls = 0

Init ==
    /\ Constructed
    /\ card = c_ir_ia
    /\ allCards = <<>>
    /\ distractors = Null
    /\ question = Null

\* the tiers the difficulty manager reaches at full speed, each with the history
\* of correct answers that first reaches it
TierStates ==
    {[level |-> k, history |-> [i \in 1..(IF k = 0 THEN 0 ELSE k + 2) |-> TRUE]] :
        k \in 0..(Len(difficultyLevels) - 1)}

\* no session (the last one was abandoned), the difficulty manager at any tier, and
\* any saved user settings
InitStart ==
    /\ currentSession = NoSession
    /\ questions = <<>>
    /\ answers = <<>>
    /\ \E t \in TierStates :
          /\ currentDifficulty = t.level
          /\ performanceHistory = t.history
    /\ settings = AdaptiveSettings(TRUE, 10, 3, 5)
    /\ userSettings \in SettingsChoices
    /\ quizPage = StartScreen
    /\ questionView = NoView
    /\ progress = DEFAULT_USER_PROGRESS
    /\ userProgress = DEFAULT_USER_PROGRESS
    /\ now = 0
    /\ lastCall = Call("none", <<>>, Null)
    /\ calls = 0
    /\ card = c_ir_ia
    /\ allCards = <<>>
    /\ distractors = Null
    /\ question = Null

\* the pools handed to startNewSession at the tiers: none, pools of which some
\* tier keeps no card, and one of three cards
StartPools ==
    {<<>>, <<c_ir_fora>>, <<c_comer_comi>>, <<c_por_pusera>>,
     <<c_comer_comi, c_ir_ia>>, <<c_cantar_cantei, c_por_pusera>>,
     <<c_ir_fora, c_comer_comi, c_ir_ia>>}

\* the pools handed to getFilteredCards: those, and one of four cards
FilterPools ==
    StartPools \cup {<<c_cantar_cantei, c_fazer_fara, c_por_pusera, c_comer_comi>>}

NextStart ==
    \E cards \in StartPools, questionCount \in 1..MaxQuestionCount :
        StartNewSession(cards, questionCount) /\ UNCHANGED <<calls, uiVars>>

\* startNewSession at every tier of the difficulty manager
SpecStart == InitStart /\ [][NextStart]_vars

\* one more operation is invoked, while the run may still grow
Invoked == calls < MaxCalls /\ calls' = calls + 1

Next ==
    \/ \E cards \in SessionPools, questionCount \in 1..MaxQuestionCount :
          Invoked /\ StartNewSession(cards, questionCount) /\ UNCHANGED uiVars
    \/ \E answer \in AnswerInputs : Invoked /\ RecordAnswer(answer)
    \/ (Invoked /\ CompleteSession)
    \/ (Invoked /\ ResetSession)
    \/ (Invoked /\ GetCurrentQuestion)
    \/ (Invoked /\ ResetAdaptiveDifficulty)
    \/ \E updates \in SettingsChoices : Invoked /\ UpdateSettings(updates)
    \/ (Tick /\ UNCHANGED calls)

\* the session manager and its collaborators, driven through their public operations
Spec == Init /\ [][Next]_vars

NextDifficulty ==
    \/ \E isCorrect \in BOOLEAN :
          /\ Len(PushHistory(performanceHistory, isCorrect, settings)) <= MaxHistory
          /\ AdaptiveRecordAnswer(isCorrect)
          /\ UNCHANGED calls
    \/ \E newSettings \in SettingsChoices :
          AdaptiveUpdateSettings(newSettings) /\ UNCHANGED calls
    \/ (ResetDifficulty /\ UNCHANGED calls)
    \/ \E pool \in FilterPools : GetFilteredCards(pool) /\ UNCHANGED calls

\* the difficulty manager driven through its own operations
SpecDifficulty == Init /\ [][NextDifficulty]_vars

InitDistractors ==
    /\ Constructed
    /\ card \in CardUniverse
    /\ allCards \in Pools
    /\ distractors = Null
    /\ question = Null

NextQuiz ==
    \/ \E mode \in {"multiple-choice", "fill-in-blank"} : SelectQuizMode(mode)
    \/ \E questionCount \in 1..MaxQuestionCount, timeLimit \in 0..MaxTimeLimit :
          StartQuiz(questionCount, timeLimit)
    \/ \E answerIndex \in 0..3 : SelectOption(answerIndex)
    \/ Continue
    \/ \E text \in TypedAnswers \cup {<<>>} : TypeAnswer(text)
    \/ Submit
    \/ FeedbackElapsed
    \/ TimerTick
    \/ StatsTick

\* the Quiz page with its timers: the intervals and the timeout fire as long as
\* they are set, the user acts or not
SpecQuiz ==
    /\ Init
    /\ [][NextQuiz]_vars
    /\ WF_vars(TimerTick)
    /\ WF_vars(StatsTick)
    /\ WF_vars(FeedbackElapsed)

----------------------------------------------------------------------------
(* dataLoader: isCard and loadCards *)

\* the longest cards.json array
MaxEntries == 3

\* isCard(value): an object whose eight required fields are strings; an entry
\* records which of its fields hold a string
isCard(value) ==
    /\ value.object
    /\ \A key \in {"id", "phrase", "verb", "tense", "subject", "correctAnswer",
                    "verbType", "category"} : key \in value.strings

\* what fetch(cards.json) can bring: a failed response, a JSON value that is not an
\* array, or an array of cards, of objects lacking a field and of other values
Responses ==
    LET fields == {"id", "phrase", "verb", "tense", "subject", "correctAnswer",
                   "verbType", "category"}
        Entry(object, strings, id, tense) ==
            [object |-> object, strings |-> strings, id |-> id, tense |-> tense]
        entries == {Entry(TRUE, fields, "ser_pp_eu", "preterito_perfeito"),
                    Entry(TRUE, fields, "ir_pi_eu", "preterito_imperfeito"),
                    Entry(TRUE, fields, "ser_p_eu", "presente"),
                    Entry(TRUE, fields \ {"category"}, "ter_pp_eu", "preterito_perfeito"),
                    Entry(FALSE, {}, "", "")}
    IN {[ok |-> FALSE, isArray |-> FALSE, data |-> <<>>],
        [ok |-> TRUE, isArray |-> FALSE, data |-> <<>>]}
       \cup {[ok |-> TRUE, isArray |-> TRUE, data |-> data] :
                data \in UNION {[1..n -> entries] : n \in 0..MaxEntries}}

\* a loadCards that returns the cards of the enabled tenses even when there are none
loadCardsWithoutFallback(response, enabledTenses) ==
    LET cards == SelectSeq(response.data, isCard)
        tenses == IF enabledTenses # Null THEN enabledTenses[1]
                  ELSE <<"preterito_perfeito", "preterito_imperfeito", "futuro_do_presente",
                         "presente_do_subjuntivo", "imperfeito_do_subjuntivo">>
        Enabled(c) == \E i \in 1..Len(tenses) : tenses[i] = c.tense
    IN IF ~response.ok \/ ~response.isArray \/ Len(cards) = 0
       THEN [rejected |-> TRUE, cards |-> <<>>]
       ELSE [rejected |-> FALSE, cards |-> SelectSeq(cards, Enabled)]

\* loadCards(): the outcome of the promise for a response and the enabledTenses
\* setting (Null when the setting is missing)
loadCards(response, enabledTenses) ==
    LET cards == SelectSeq(response.data, isCard)
        tenses == IF enabledTenses # Null THEN enabledTenses[1]
                  ELSE <<"preterito_perfeito", "preterito_imperfeito", "futuro_do_presente",
                         "presente_do_subjuntivo", "imperfeito_do_subjuntivo">>
        Enabled(c) == \E i \in 1..Len(tenses) : tenses[i] = c.tense
        filteredCards == SelectSeq(cards, Enabled)
    IN IF ~response.ok \/ ~response.isArray \/ Len(cards) = 0
       THEN [rejected |-> TRUE, cards |-> <<>>]
       ELSE [rejected |-> FALSE,
             cards |-> IF Len(filteredCards) > 0 THEN filteredCards ELSE cards]

\* one call of loadCards()
LoadCards(response, enabledTenses) ==
    /\ lastCall' = Call("loadCards", <<response, enabledTenses>>,
                        loadCards(response, enabledTenses))
    /\ UNCHANGED <<currentSession, questions, answers, performanceHistory,
                   currentDifficulty, settings, userSettings, progress, now>>
    /\ UNCHANGED pureVars
    /\ UNCHANGED userProgress
    /\ UNCHANGED uiVars

NextLoad ==
    \E response \in Responses,
       enabledTenses \in {Null, Some(<<>>), Some(<<"preterito_imperfeito">>),
                          Some(<<"futuro_do_presente", "preterito_perfeito">>)} :
        LoadCards(response, enabledTenses) /\ UNCHANGED calls

\* the data loader called with any response and any enabledTenses setting
SpecLoad == Init /\ [][NextLoad]_vars

----------------------------------------------------------------------------
\* the modules are loaded with any stored settings
InitSettings ==
    /\ currentSession = NoSession
    /\ questions = <<>>
    /\ answers = <<>>
    /\ performanceHistory = <<>>
    /\ currentDifficulty = 0
    /\ settings = DEFAULT_SETTINGS
    /\ \E stored \in StoredSettings : userSettings = loadSettings(stored)
    /\ progress = DEFAULT_USER_PROGRESS
    /\ userProgress = DEFAULT_USER_PROGRESS
    /\ now = 0
    /\ lastCall = Call("none", <<>>, Null)
    /\ calls = 0
    /\ quizPage = StartScreen
    /\ questionView = NoView
    /\ card = c_ir_ia
    /\ allCards = <<>>
    /\ distractors = Null
    /\ question = Null

NextSettings ==
    \/ \E cards \in SessionPools, questionCount \in 1..MaxQuestionCount :
          Invoked /\ StartNewSession(cards, questionCount) /\ UNCHANGED uiVars
    \/ \E answer \in AnswerInputs : Invoked /\ RecordAnswer(answer)
    \/ (Invoked /\ GetSessionStats)
    \/ (Invoked /\ GetCurrentQuestion)
    \/ (Invoked /\ IsQuizComplete)
    \/ (Invoked /\ GetAllAnswers)

\* sessions started with the settings found in localStorage
SpecSettings == InitSettings /\ [][NextSettings]_vars

\* createQuizQuestion or generateQuizQuestions has just been entered, on a pool
\* that may hold a card twice
InitLoops ==
    /\ quizPage = StartScreen
    /\ questionView = NoView
    /\ currentSession = NoSession
    /\ questions = <<>>
    /\ answers = <<>>
    /\ performanceHistory = <<>>
    /\ currentDifficulty = 0
    /\ settings = DEFAULT_SETTINGS
    /\ userSettings = DEFAULT_SETTINGS
    /\ progress = DEFAULT_USER_PROGRESS
    /\ userProgress = DEFAULT_USER_PROGRESS
    /\ now = 0
    /\ calls = 0
    /\ card \in CardUniverse
    /\ allCards \in {p \in Pools : Len(p) <= 2}
                    \cup {<<c_ir_ia, c_ir_ia>>, <<c_ir_ia, c_comer_comi, c_ir_ia>>}
    /\ distractors = Some(generateDistractors(card, allCards))
    /\ question = Null
    /\ \/ lastCall = Call("createQuizQuestion",
                          <<Dedup(<<card.correctAnswer>> \o distractors[1])>>, Null)
       \/ \E count \in 0..(MaxQuestionCount + 1) :
             lastCall = Call("generateQuizQuestions", <<count, <<>>>>, Null)

NextLoops ==
    \/ FillIteration
    \/ PickIteration

\* the two loops, one iteration at a step
SpecLoops ==
    /\ InitLoops
    /\ [][NextLoops]_vars
    /\ WF_vars(FillIteration)
    /\ WF_vars(PickIteration)

\* the page is loaded with the progress of an earlier visit in the storage: one
\* study session with a card answered wrongly; the study session manager has read it
InitStudy ==
    /\ quizPage = StartScreen
    /\ questionView = NoView
    /\ currentSession = NoSession
    /\ questions = <<>>
    /\ answers = <<>>
    /\ performanceHistory = <<>>
    /\ currentDifficulty = 0
    /\ settings = DEFAULT_SETTINGS
    /\ userSettings = DEFAULT_SETTINGS
    /\ progress = [sessions |-> <<[cardsStudied |-> <<"ir_pi_eu">>,
                                   correctAnswers |-> <<>>,
                                   incorrectAnswers |-> <<"ir_pi_eu">>,
                                   timeSpent |-> 0]>>,
                   wrongCards |-> <<"ir_pi_eu">>,
                   totalStudied |-> 1,
                   totalCorrect |-> 0]
    /\ userProgress = progress
    /\ now = 0
    /\ lastCall = Call("none", <<>>, Null)
    /\ calls = 0
    /\ card = c_ir_ia
    /\ allCards = <<>>
    /\ distractors = Null
    /\ question = Null

NextStudy ==
    \/ (Invoked /\ StartNewSession(<<c_ir_ia>>, 1) /\ UNCHANGED uiVars)
    \/ \E answer \in AnswerInputs : Invoked /\ RecordAnswer(answer)
    \/ (Invoked /\ CompleteSession)
    \/ \E cardId \in {"ir_pi_eu", "comer_pp_eu"} : Invoked /\ AddToWrongCards(cardId)
    \/ \E cardId \in {"ir_pi_eu", "comer_pp_eu"} : Invoked /\ RemoveFromWrongCards(cardId)
    \/ (Invoked /\ ClearWrongCards)

\* quizzes and the wrong cards list of study mode on one page load
SpecStudy == InitStudy /\ [][NextStudy]_vars

\* the session manager with the delayed onAnswer of FillInTheBlank: handleSubmit
\* leaves the answer in a timeout that nothing clears, the page may start or reset
\* a session meanwhile, and the timeout then hands the answer to handleAnswer
NextCallback ==
    \/ \E questionCount \in 1..MaxQuestionCount :
          Invoked /\ StartNewSession(QuizCards, questionCount) /\ UNCHANGED uiVars
    \/ (Invoked /\ ResetSession)
    \/ \E text \in TypedAnswers :
          /\ Len(progress.sessions) < MaxQuizzes
          /\ ~RecordAnswerIgnored
          /\ getCurrentQuestion # Null
          /\ questionView.pending = Null
          /\ ViewBecomes(Submitted([questionView EXCEPT !.userAnswer = text],
                                   CardOf(getCurrentQuestion[1])))
    \/ /\ questionView.pending # Null
       /\ IF RecordAnswerIgnored
          THEN ViewBecomes(NoView)
          ELSE QuizHandleAnswer(questionView.pending[1])

\* sessions started and reset while an answer is on its way
SpecCallback == Init /\ [][NextCallback]_vars

NextForward ==
    \/ \E updates \in SettingsChoices : UpdateSettings(updates) /\ UNCHANGED calls
    \/ (StartNewSession(QuizCards, 1) /\ UNCHANGED <<calls, uiVars>>)
    \/ \E answer \in AnswerInputs :
          /\ Len(answers) < MaxHistory
          /\ Len(PushHistory(performanceHistory, answer.isCorrect, settings)) <= MaxHistory
          /\ RecordAnswer(answer)
          /\ UNCHANGED calls
    \/ (ResetAdaptiveDifficulty /\ UNCHANGED calls)

\* quiz after quiz on one page load, the settings page visited in between
SpecForward == Init /\ [][NextForward]_vars

NextDistractors ==
    \/ (GenerateDistractors /\ UNCHANGED calls)
    \/ (CreateQuizQuestion /\ UNCHANGED calls)

\* generateDistractors and createQuizQuestion on every card and pool of the bounds
SpecDistractors == InitDistractors /\ [][NextDistractors]_vars

----------------------------------------------------------------------------
(* Claims C1 to C10 *)

\* C1 (stated as claimed, refuted under Spec): in every reachable state of a
\* session that has questions, the number of recorded answers is at most the
\* number of questions of the session.
C1_AnswersWithinQuestions ==
    (currentSession # NoSession /\ Len(questions) > 0) => Len(answers) <= Len(questions)

\* C2 (stated as claimed, refuted under Spec): once completeSession has succeeded
\* on a session, a further completeSession call on that session hands no second
\* result to progressTracker.recordQuizResult, i.e. the stored progress is unchanged.
C2_ResultHandedOnce ==
    [][(/\ currentSession # NoSession
        /\ currentSession[1].isCompleted
        /\ calls' = calls + 1
        /\ lastCall'.op = "completeSession") => progress' = progress]_vars

\* C3 (stated as claimed, refuted under SpecDistractors): for a card C of the pool P,
\* generateDistractors(C, P) returns exactly 3 pairwise distinct strings.
C3_ThreeDistinctDistractors ==
    (distractors # Null /\ Includes(allCards, card)) =>
        (Len(distractors[1]) = 3 /\ Distinct(distractors[1]))

\* C4 (stated as claimed, refuted under SpecDistractors): for a card C of the pool P,
\* no string returned by generateDistractors(C, P) equals C.correctAnswer.
C4_NoDistractorIsCorrectAnswer ==
    (distractors # Null /\ Includes(allCards, card)) =>
        ~Includes(distractors[1], card.correctAnswer)

\* C5 (stated as claimed, refuted under SpecDistractors): the question
\* createQuizQuestion builds for a card of a non-empty pool has exactly 4 options,
\* pairwise distinct.
C5_FourDistinctOptions ==
    (question # Null /\ Includes(allCards, card)) =>
        (Len(question[1].options) = 4 /\ Distinct(question[1].options))

\* C6 (stated as claimed, refuted under SpecDistractors): when the pool holds at
\* least 4 distinct correct answers, createQuizQuestion(C, P) returns exactly 4
\* unique options that include C.correctAnswer, and options[correctAnswerIndex] is
\* C.correctAnswer.
C6_FourOptionsFromRichPool ==
    (/\ question # Null
     /\ Includes(allCards, card)
     /\ Cardinality({allCards[i].correctAnswer : i \in 1..Len(allCards)}) >= 4) =>
        LET q == question[1]
        IN /\ Len(q.options) = 4
           /\ Distinct(q.options)
           /\ Includes(q.options, card.correctAnswer)
           /\ q.correctAnswerIndex \in 0..(Len(q.options) - 1)
           /\ q.options[q.correctAnswerIndex + 1] = card.correctAnswer

\* C7 (as claimed, refuted under Spec): under the default settings,
\* startNewSession(pool, n) on a pool of k cards creates exactly min(n, k) questions.
C7_QuestionCountOfPool ==
    (lastCall.op = "startNewSession" /\ settings = DEFAULT_SETTINGS) =>
        Len(questions) = Min(lastCall.args[2], Len(lastCall.args[1]))

\* C7 (amended, holds under Spec): startNewSession(pool, n) creates exactly
\* min(n, k') questions, where k' is the number of cards of the pool whose difficulty
\* score lies in the range of the current tier when adaptive difficulty is enabled
\* and at least one card does, and k' is the size of the pool otherwise.
C7_QuestionCountOfFilteredPool ==
    lastCall.op = "startNewSession" =>
        LET pool == lastCall.args[1]
            n == lastCall.args[2]
            M == difficultyLevels[currentDifficulty + 1]
            kept == Cardinality({i \in 1..Len(pool) :
                        /\ calculateCardDifficulty(pool[i]) >= 7 * M
                        /\ calculateCardDifficulty(pool[i]) <= 13 * M})
            k == IF settings.enableAdaptiveDifficulty /\ kept > 0 THEN kept ELSE Len(pool)
        IN /\ Len(questions) = Min(n, k)
           /\ currentSession # NoSession
           /\ currentSession[1].totalQuestions = Min(n, k)

\* C7 (witness): a session started under the default settings at the beginner tier
\* on two cards of which the filter keeps one, with two questions asked for.
C7_FilteredPoolStarted ==
    /\ lastCall.op = "startNewSession"
    /\ lastCall.args = << <<c_comer_comi, c_ir_fora>>, 2 >>
    /\ settings = DEFAULT_SETTINGS
    /\ currentDifficulty = 0
    /\ Len(questions) = 1

\* C8 (stated as claimed, refuted under SpecDifficulty): with the default settings,
\* once 5 consecutive correct answers have been recorded from the reset state the
\* tier index has increased above beginner.
C8_FiveCorrectAdvanceTier ==
    (/\ lastCall.op = "adaptiveDifficultyManager.recordAnswer"
     /\ settings = DEFAULT_SETTINGS
     /\ performanceHistory = <<TRUE, TRUE, TRUE, TRUE, TRUE>>) => currentDifficulty >= 1

\* C9 (stated as claimed, refuted under SpecDifficulty): with adjustment speed 1 and
\* a tier above beginner, the recordAnswer that leaves a window of at least
\* minimumQuestionsForAdjustment answers, of accuracy at most 0.4, ending with at
\* least 2 incorrect answers, lowers the tier by exactly one.
C9_StrugglingLowersTier ==
    [][(/\ lastCall'.op = "adaptiveDifficultyManager.recordAnswer"
        /\ settings.difficultyAdjustmentSpeed = 10
        /\ currentDifficulty > 0
        /\ Len(performanceHistory') >= settings.minimumQuestionsForAdjustment
        /\ Len(performanceHistory') >= 2
        /\ correctCount(performanceHistory') * 10 <= 4 * Len(performanceHistory')
        /\ ~performanceHistory'[Len(performanceHistory')]
        /\ ~performanceHistory'[Len(performanceHistory') - 1])
       => currentDifficulty' = currentDifficulty - 1]_vars

\* C10 (holds under Spec): recordAnswer called when there is no session, or when
\* the session is completed, leaves the answer list, the question list, the session
\* (its completion flag included), the difficulty tier and the performance window
\* unchanged.
C10_RecordAnswerNoOp ==
    [][(/\ calls' = calls + 1
        /\ lastCall'.op = "recordAnswer"
        /\ (currentSession = NoSession \/ currentSession[1].isCompleted))
       => /\ answers' = answers
          /\ questions' = questions
          /\ currentSession' = currentSession
          /\ currentDifficulty' = currentDifficulty
          /\ performanceHistory' = performanceHistory]_vars

\* C10 (witness): recordAnswer has just been called on a completed session that
\* holds answers.
C10_RecordAnswerOnCompletedSession ==
    /\ lastCall.op = "recordAnswer"
    /\ currentSession # NoSession
    /\ currentSession[1].isCompleted
    /\ answers # <<>>

----------------------------------------------------------------------------
(* Claims C11 to C20 *)

\* C11 (holds under Spec): completeSession called when there is no session, or when
\* fewer answers than questions are recorded, returns null, leaves the session (its
\* completion flag and end time included), the questions and the answers unchanged,
\* and hands nothing to progressTracker: the stored progress is unchanged.
C11_CompleteSessionRefusal ==
    [][(/\ calls' = calls + 1
        /\ lastCall'.op = "completeSession"
        /\ (currentSession = NoSession \/ Len(answers) < Len(questions)))
       => /\ lastCall'.result = Null
          /\ currentSession' = currentSession
          /\ questions' = questions
          /\ answers' = answers
          /\ progress' = progress]_vars

\* C11 (witness): completeSession has just returned null on a session that still
\* has a question to answer; the session is not sealed and has no end time.
C11_CompleteSessionOnOpenSession ==
    /\ lastCall.op = "completeSession"
    /\ lastCall.result = Null
    /\ currentSession # NoSession
    /\ Len(answers) < Len(questions)
    /\ ~currentSession[1].isCompleted
    /\ currentSession[1].endTime = Null
    /\ progress = DEFAULT_USER_PROGRESS

\* C12 (violated under Spec): the result of a successful completeSession has score
\* equal to the number of correct answers, totalQuestions equal to the number of
\* questions of the session, and accuracy equal to score / totalQuestions * 100,
\* within 0..100.
C12_ResultCountsQuestions ==
    (lastCall.op = "completeSession" /\ lastCall.result # Null)
    => LET result == lastCall.result[1]
       IN /\ result.score = Cardinality({i \in 1..Len(answers) : answers[i].isCorrect})
          /\ result.totalQuestions = Len(questions)
          /\ result.totalQuestions > 0
                => result.accuracy[1] * result.totalQuestions
                      = result.score * 100 * result.accuracy[2]
          /\ 0 <= result.accuracy[1]
          /\ result.accuracy[1] <= 100 * result.accuracy[2]

\* C13 (violated under Spec): the lifecycle state only moves from NoSession to
\* Active by startNewSession, from Active to Completed by completeSession, and to
\* NoSession by resetSession; no operation takes the manager from Completed
\* directly to Active.
C13_LifecycleForwardOnly ==
    [][LET from == LifecycleState(currentSession)
           to == LifecycleState(currentSession')
       IN \/ from = to
          \/ from = "NoSession" /\ to = "Active" /\ lastCall'.op = "startNewSession"
          \/ from = "Active" /\ to = "Completed" /\ lastCall'.op = "completeSession"
          \/ to = "NoSession" /\ lastCall'.op = "resetSession"]_vars

\* C13 (amended, holds under Spec): the lifecycle state becomes Active only by
\* startNewSession (from any state, Completed included), becomes Completed only by
\* completeSession on an Active session whose questions are all answered, and
\* becomes NoSession only by resetSession; every other operation leaves a sealed
\* session sealed and the same session in every field but its end time, so a sealed
\* session is never unsealed in place.
C13_LifecycleTransitions ==
    [][LET from == LifecycleState(currentSession)
           to == LifecycleState(currentSession')
       IN /\ from # to
             => \/ to = "Active" /\ lastCall'.op = "startNewSession"
                \/ /\ from = "Active" /\ to = "Completed"
                   /\ lastCall'.op = "completeSession"
                   /\ Len(answers) >= Len(questions)
                \/ to = "NoSession" /\ lastCall'.op = "resetSession"
          /\ (from = "Completed" /\ lastCall'.op \notin {"startNewSession", "resetSession"})
             => /\ to = "Completed"
                /\ [currentSession'[1] EXCEPT !.endTime = Null]
                      = [currentSession[1] EXCEPT !.endTime = Null]]_vars

\* C13 (witness): startNewSession has just replaced a completed session by an active
\* one: the four calls so far are startNewSession, recordAnswer, completeSession and
\* startNewSession.
C13_RestartedFromCompleted ==
    /\ calls = 4
    /\ lastCall.op = "startNewSession"
    /\ LifecycleState(currentSession) = "Active"
    /\ Len(progress.sessions) = 1
    /\ progress.sessions[1].cardsStudied # <<>>

\* C14 (holds under Spec): resetSession is accepted in every state (no session, an
\* active session with any number of answers, a completed session); after it there
\* is no session, the question list and the answer list are empty, and nothing is
\* handed to progressTracker: the stored progress is unchanged.
C14_ResetSessionClears ==
    [][(calls' = calls + 1 /\ lastCall'.op = "resetSession")
       => /\ currentSession' = NoSession
          /\ questions' = <<>>
          /\ answers' = <<>>
          /\ progress' = progress]_vars

\* C14 (witness): resetSession has just abandoned an active session that had an
\* answer (the three calls so far are startNewSession, recordAnswer, resetSession);
\* nothing of it was persisted.
C14_AbandonedSessionNotPersisted ==
    /\ calls = 3
    /\ lastCall.op = "resetSession"
    /\ currentSession = NoSession
    /\ questions = <<>>
    /\ answers = <<>>
    /\ performanceHistory # <<>>
    /\ progress = DEFAULT_USER_PROGRESS

\* C15 (holds under Spec): the answer list is append-only within a session: every
\* step that is not a startNewSession or a resetSession, every recordAnswer
\* included, leaves the answers recorded before it as an unchanged prefix of the
\* list, so the answer count never decreases; a recordAnswer adds at most one
\* answer.
C15_AnswersAppendOnly ==
    [][/\ \/ calls' = calls + 1 /\ lastCall'.op \in {"startNewSession", "resetSession"}
          \/ /\ Len(answers') >= Len(answers)
             /\ SubSeq(answers', 1, Len(answers)) = answers
       /\ (calls' = calls + 1 /\ lastCall'.op = "recordAnswer")
          => Len(answers') <= Len(answers) + 1]_vars

\* C15 (witness): recordAnswer has just appended a second, different answer to an
\* open session.
C15_SecondAnswerAppended ==
    /\ lastCall.op = "recordAnswer"
    /\ currentSession # NoSession
    /\ ~currentSession[1].isCompleted
    /\ Len(answers) = 2
    /\ answers[1] # answers[2]
    /\ answers[2] = lastCall.args[1]

\* C16 (holds under Spec): getCurrentQuestion returns the question whose index is
\* the number of answers recorded so far, and null when there is no session or
\* every question is answered; it changes nothing, and the question it would
\* return changes only by a recordAnswer, a startNewSession or a resetSession, so
\* two calls with none of these in between return the identical question.
C16_CurrentQuestionAtAnswerCount ==
    [][LET Expected(session, qs, as) ==
               IF session = NoSession \/ Len(as) >= Len(qs)
               THEN Null
               ELSE Some(qs[Len(as) + 1])
       IN /\ (calls' = calls + 1 /\ lastCall'.op = "getCurrentQuestion")
             => /\ lastCall'.result = Expected(currentSession, questions, answers)
                /\ UNCHANGED <<currentSession, questions, answers>>
                /\ lastCall.op = "getCurrentQuestion"
                      => lastCall'.result = lastCall.result
          /\ \/ /\ calls' = calls + 1
                /\ lastCall'.op \in {"recordAnswer", "startNewSession", "resetSession"}
             \/ Expected(currentSession', questions', answers')
                   = Expected(currentSession, questions, answers)]_vars

\* C16 (witness): getCurrentQuestion has just returned the second question of a
\* session with one recorded answer.
C16_SecondQuestionReturned ==
    /\ lastCall.op = "getCurrentQuestion"
    /\ Len(answers) = 1
    /\ Len(questions) = 2
    /\ lastCall.result = Some(questions[2])
    /\ questions[2] # questions[1]

\* C17 (holds under SpecDifficulty): after any sequence of recordAnswer,
\* updateSettings (with an adjustment speed in (0, 1]) and resetDifficulty on the
\* difficulty manager, the index of the current tier is within 0..3.
C17_TierWithinBounds ==
    /\ settings.difficultyAdjustmentSpeed \in 1..10
    /\ currentDifficulty \in 0..(Len(difficultyLevels) - 1)
    /\ Len(difficultyLevels) = 4

\* C17 (witness): a correct answer has just been recorded with the manager at the
\* expert tier and a window of five correct answers, at full adjustment speed.
C17_CorrectAnswerAtExpertTier ==
    /\ lastCall.op = "adaptiveDifficultyManager.recordAnswer"
    /\ lastCall.args = <<TRUE>>
    /\ currentDifficulty = 3
    /\ settings.difficultyAdjustmentSpeed = 10
    /\ performanceHistory = <<TRUE, TRUE, TRUE, TRUE, TRUE>>

\* C18 (holds under SpecDifficulty): with an adjustment speed in (0, 1], one
\* recordAnswer changes the index of the tier by at most 1, upwards or downwards;
\* an incorrect answer after a streak of correct ones lowers it by at most 1.
C18_OneTierPerAnswer ==
    [][(lastCall'.op = "adaptiveDifficultyManager.recordAnswer"
           /\ settings.difficultyAdjustmentSpeed \in 1..10)
       => /\ currentDifficulty' - currentDifficulty \in {-1, 0, 1}
          /\ lastCall'.args = <<FALSE>>
                => currentDifficulty - currentDifficulty' \in {0, 1}]_vars

\* C18 (witness): the third correct answer in a row since the reset has just moved
\* the manager from the beginner tier to the next one.
C18_ThirdCorrectAnswerRaisedTier ==
    /\ lastCall.op = "adaptiveDifficultyManager.recordAnswer"
    /\ performanceHistory = <<TRUE, TRUE, TRUE>>
    /\ currentDifficulty = 1

\* C19 (violated under SpecDifficulty): the performance history is a bounded
\* queue: in every reachable state, also after updateSettings has lowered
\* performanceWindow, it holds at most performanceWindow answers.
C19_HistoryWithinWindow ==
    Len(performanceHistory) <= settings.performanceWindow

\* C20 (holds under SpecDifficulty): a recordAnswer after which the performance
\* history holds fewer than minimumQuestionsForAdjustment answers leaves the tier
\* as it was.
C20_NoAdjustmentBelowMinimum ==
    [][(/\ lastCall'.op = "adaptiveDifficultyManager.recordAnswer"
        /\ Len(performanceHistory') < settings'.minimumQuestionsForAdjustment)
       => currentDifficulty' = currentDifficulty]_vars

\* C20 (witness): three correct answers in a row have been recorded at speed 0.5
\* with a minimum of five answers, and the manager is still at the beginner tier.
C20_StreakBelowMinimum ==
    /\ lastCall.op = "adaptiveDifficultyManager.recordAnswer"
    /\ performanceHistory = <<TRUE, TRUE, TRUE>>
    /\ settings.minimumQuestionsForAdjustment = 5
    /\ settings.difficultyAdjustmentSpeed = 5
    /\ currentDifficulty = 0

----------------------------------------------------------------------------
(* Claims C21 to C30 *)

\* C21 (holds under SpecStart): at every tier, a session started with a non-empty
\* pool has at least one question; when adaptive difficulty is enabled and the
\* current tier keeps no card of the pool, the questions are built from the pool
\* as given: there are min(questionCount, pool size) of them.
C21_FallbackToGivenPool ==
    (lastCall.op = "startNewSession" /\ lastCall.args[1] # <<>>)
    => /\ Len(questions) >= 1
       /\ (/\ userSettings.enableAdaptiveDifficulty
           /\ \A i \in 1..Len(lastCall.args[1]) :
                 ~InDifficultyRange(lastCall.args[1][i], currentDifficulty))
          => Len(questions) = Min(lastCall.args[2], Len(lastCall.args[1]))

\* C21 (witness): startNewSession at the intermediate tier, adaptive difficulty
\* enabled, with a pool whose only card scores above the tier's range: the session
\* has a question.
C21_StartedOnStarvedPool ==
    /\ lastCall.op = "startNewSession"
    /\ lastCall.args[1] = <<c_por_pusera>>
    /\ currentDifficulty = 1
    /\ userSettings.enableAdaptiveDifficulty
    /\ ~InDifficultyRange(c_por_pusera, currentDifficulty)
    /\ Len(questions) = 1

\* C22 (holds under SpecDifficulty): with enableAdaptiveDifficulty false,
\* getFilteredCards returns the pool it is given, the same cards in the same
\* order, at every tier and with every performance history.
C22_DisabledFilterIsIdentity ==
    (lastCall.op = "adaptiveDifficultyManager.getFilteredCards"
        /\ ~settings.enableAdaptiveDifficulty)
    => lastCall.result = lastCall.args[1]

\* C22 (witness): with adaptive difficulty off, the manager above the beginner tier
\* and answers in its history, getFilteredCards has returned unchanged a pool of
\* which the tier's range would have kept only a part.
C22_DisabledFilterAboveBeginner ==
    /\ lastCall.op = "adaptiveDifficultyManager.getFilteredCards"
    /\ ~settings.enableAdaptiveDifficulty
    /\ currentDifficulty >= 2
    /\ performanceHistory # <<>>
    /\ lastCall.args[1] = <<c_ir_fora, c_comer_comi, c_ir_ia>>
    /\ ~InDifficultyRange(c_comer_comi, currentDifficulty)
    /\ lastCall.result = <<c_ir_fora, c_comer_comi, c_ir_ia>>

\* C23 (holds under SpecDifficulty): with adaptive difficulty enabled,
\* getFilteredCards returns, in pool order, exactly the cards whose score
\* 0.4 * tenseDifficulty + 0.3 * verbTypeDifficulty + 0.3 * verbFrequency lies in
\* [0.7 * M, 1.3 * M], ends included, M the multiplier of the current tier; the
\* verbs por and cantar, absent from the frequency table, count as 2.0.
C23_FilterKeepsCardsInRange ==
    (lastCall.op = "adaptiveDifficultyManager.getFilteredCards"
        /\ settings.enableAdaptiveDifficulty)
    => LET M == difficultyLevels[currentDifficulty + 1]
           Frequency(c) == IF c.verb \in {"por", "cantar"} THEN 20
                           ELSE verbFrequency(c.verb)
           \* in hundredths
           Score(c) == 4 * tenseDifficulty(c.tense) + 3 * verbTypeDifficulty(c.verbType)
                          + 3 * Frequency(c)
           Kept(c) == 7 * M <= Score(c) /\ Score(c) <= 13 * M
       IN lastCall.result = SelectSeq(lastCall.args[1], Kept)

\* C23 (witness): at the beginner tier getFilteredCards has kept, in order, the card
\* of cantar (score 1.30, the upper end of the range), of fazer (1.19) and of comer
\* (1.00), and dropped the card of por (1.77).
C23_BeginnerFilterAtRangeEnd ==
    /\ lastCall.op = "adaptiveDifficultyManager.getFilteredCards"
    /\ settings.enableAdaptiveDifficulty
    /\ currentDifficulty = 0
    /\ lastCall.args[1] = <<c_cantar_cantei, c_fazer_fara, c_por_pusera, c_comer_comi>>
    /\ lastCall.result = <<c_cantar_cantei, c_fazer_fara, c_comer_comi>>

\* C24 (holds under SpecStart): the questions of a session are built from pairwise
\* distinct cards of the pool startNewSession was given (of the cards the tier
\* keeps, when adaptive difficulty is enabled and it keeps any): no card id and no
\* question id appears twice.
C24_QuestionsOfDistinctCards ==
    lastCall.op = "startNewSession"
    => LET cards == lastCall.args[1]
           InPool(id) == \E k \in 1..Len(cards) : cards[k].id = id
           InRange(id) == \E k \in 1..Len(cards) :
                             cards[k].id = id /\ InDifficultyRange(cards[k], currentDifficulty)
           filtered == /\ userSettings.enableAdaptiveDifficulty
                       /\ \E k \in 1..Len(cards) :
                             InDifficultyRange(cards[k], currentDifficulty)
       IN /\ \A i, j \in 1..Len(questions) :
                i # j => /\ questions[i].cardId # questions[j].cardId
                         /\ questions[i].id # questions[j].id
          /\ \A i \in 1..Len(questions) :
                /\ InPool(questions[i].cardId)
                /\ filtered => InRange(questions[i].cardId)

\* C24 (witness): a session of two questions has been started on a pool of three
\* cards, all within the tier's range.
C24_TwoQuestionsOfThreeCards ==
    /\ lastCall.op = "startNewSession"
    /\ lastCall.args[1] = <<c_ir_fora, c_comer_comi, c_ir_ia>>
    /\ userSettings.enableAdaptiveDifficulty
    /\ currentDifficulty = 1
    /\ Len(questions) = 2
    /\ questions[1].cardId = "ir_pi_eu"

\* C25 (violated under SpecQuiz): when the timer of the question on display has
\* expired, onTimeout having been invoked for it, an answer for that question
\* reaches recordAnswer without any further act of the user: the number of recorded
\* answers grows or the session is completed, with the timers alone firing, in
\* both quiz modes.
C25_TimeoutRecordsAnswer ==
    \A k \in 0..(MaxQuestionCount - 1) :
        (/\ quizPage.quizActive
         /\ questionView.timeouts > 0
         /\ Len(answers) = k)
            ~> (Len(answers) > k \/ quizPage.quizComplete)

\* C30 (violated under SpecQuiz): for one question useQuizTimer invokes onTimeout
\* at most once, and never once the question is answered, also when the timeout
\* handler leaves hasAnswered false (FillInTheBlank with an empty input).
C30_TimeoutAtMostOnce ==
    /\ questionView.timeouts <= 1
    /\ questionView.hasAnswered => ~questionView.timer

\* C26 (violated under SpecSettings): whatever localStorage holds for the adaptive
\* settings (nothing, a text that is not JSON, values out of range), the settings
\* of the difficulty manager are valid after startNewSession and after every later
\* recordAnswer: a speed in (0, 1], a minimum in 3..20, a window in 5..50.
C26_ModelSettingsValid ==
    lastCall.op \in {"startNewSession", "recordAnswer"}
    => /\ settings.enableAdaptiveDifficulty \in BOOLEAN
       /\ settings.difficultyAdjustmentSpeed \in 1..10
       /\ settings.minimumQuestionsForAdjustment \in 3..20
       /\ settings.performanceWindow \in 5..50

\* C27: getSessionStats, getCurrentQuestion, isQuizComplete and getAllAnswers leave
\* the session manager and the difficulty manager as they were, and the statistics
\* getSessionStats returns satisfy correctAnswers + incorrectAnswers = number of
\* recorded answers.
C27_GettersChangeNothing ==
    [][(/\ calls' # calls
        /\ lastCall'.op \in {"getSessionStats", "getCurrentQuestion",
                             "isQuizComplete", "getAllAnswers"})
       => /\ UNCHANGED <<currentSession, questions, answers, performanceHistory,
                         currentDifficulty, settings, userSettings, progress>>
          /\ (lastCall'.op = "getSessionStats" /\ currentSession # NoSession)
             => /\ lastCall'.result # Null
                /\ lastCall'.result[1].correctAnswers
                     + lastCall'.result[1].incorrectAnswers = Len(answers)]_vars

\* C27 witness: statistics read in a session with a correct and an incorrect answer
C27_StatsOfMixedAnswers ==
    /\ lastCall.op = "getSessionStats"
    /\ lastCall.result # Null
    /\ lastCall.result[1].correctAnswers >= 1
    /\ lastCall.result[1].incorrectAnswers >= 1

\* C28: loadCards never resolves to an empty list. It rejects exactly when the
\* response failed, is not an array or holds no valid entry; otherwise it resolves
\* to the valid entries (all eight required fields are strings) of an enabled
\* tense, in the order of the file, or to all valid entries when none is enabled.
C28_LoadCardsNeverEmpty ==
    lastCall.op = "loadCards"
    => LET response == lastCall.args[1]
           tenses == IF lastCall.args[2] = Null
                     THEN {"preterito_perfeito", "preterito_imperfeito",
                           "futuro_do_presente", "presente_do_subjuntivo",
                           "imperfeito_do_subjuntivo"}
                     ELSE {lastCall.args[2][1][i] : i \in 1..Len(lastCall.args[2][1])}
           Valid(e) == e.object /\ Cardinality(e.strings) = 8
           OfTense(e) == Valid(e) /\ e.tense \in tenses
           valid == SelectSeq(response.data, Valid)
           enabled == SelectSeq(response.data, OfTense)
           result == lastCall.result
       IN /\ result.rejected <=> (~response.ok \/ ~response.isArray \/ valid = <<>>)
          /\ ~result.rejected
             => /\ result.cards # <<>>
                /\ result.cards = IF enabled # <<>> THEN enabled ELSE valid

\* C28 witness: a file with an invalid entry and valid cards of which none has an
\* enabled tense is loaded as all its valid cards
C28_LoadedAllValidCards ==
    /\ lastCall.op = "loadCards"
    /\ ~lastCall.result.rejected
    /\ lastCall.args[2] # Null
    /\ Len(lastCall.result.cards) = 2
    /\ Len(lastCall.args[1].data) = 3
    /\ \A i \in 1..2 : \A j \in 1..Len(lastCall.args[2][1]) :
           lastCall.result.cards[i].tense # lastCall.args[2][1][j]

\* C29 (violated under SpecForward): every answer recordAnswer accepts is pushed
\* once onto the performance history, whether or not adaptive difficulty is
\* enabled, and the history is then the last performanceWindow answers accepted
\* since the last resetDifficulty: the earlier history with the new answer at its
\* end, cut to its last performanceWindow entries.
C29_HistoryIsLastWindowAnswers ==
    [][(lastCall'.op = "recordAnswer" /\ answers' # answers)
       => /\ answers' = Append(answers, lastCall'.args[1])
          /\ performanceHistory' =
                 LastN(Append(performanceHistory, lastCall'.args[1].isCorrect),
                       settings.performanceWindow)]_vars

\* C31: the option-filling loop of createQuizQuestion and the card-picking loop of
\* generateQuizQuestions are left after finitely many iterations, for every pool
\* (also one that holds a card twice, or too few distinct answers) and every
\* count: each loop eventually returns.
C31_LoopsTerminate == <>(lastCall.result # Null)

\* C31 witness: the picking loop was left before maxQuestions questions were built,
\* on a pool of three cards with two distinct ids
C31_PickLoopLeftEarly ==
    /\ lastCall.op = "generateQuizQuestions"
    /\ lastCall.result # Null
    /\ Len(allCards) = 3
    /\ lastCall.args[1] = 3
    /\ Len(lastCall.result[1]) = 2

C33_PersistedIdsAreCardIds ==
    quizPage.quizComplete
    => LET record == progress.sessions[Len(progress.sessions)]
           cardIds == {questions[i].cardId : i \in 1..Len(questions)}
           Listed(ids) == \A i \in 1..Len(ids) : ids[i] \in cardIds
           wrongCardIds == {questions[i].cardId :
                               i \in {j \in 1..Len(answers) : ~answers[j].isCorrect}}
           InWrongCards(c) == \E i \in 1..Len(progress.wrongCards) :
                                  progress.wrongCards[i] = c.id
           review == SelectSeq(QuizCards, InWrongCards)
       IN /\ record.cardsStudied = [i \in 1..Len(answers) |-> questions[i].cardId]
          /\ Listed(record.correctAnswers)
          /\ Listed(record.incorrectAnswers)
          /\ Listed(progress.wrongCards)
          /\ \A id \in wrongCardIds : \E i \in 1..Len(review) : review[i].id = id

\* C34 (violated under SpecStudy): addToWrongCards, removeFromWrongCards and
\* clearWrongCards leave the session records and the totals of the stored user
\* progress as they were, so a quiz result that recordQuizResult has stored stays.
C34_StudyOpsKeepQuizRecords ==
    [][(/\ calls' # calls
        /\ lastCall'.op \in {"addToWrongCards", "removeFromWrongCards", "clearWrongCards"})
       => /\ progress'.sessions = progress.sessions
          /\ progress'.totalStudied = progress.totalStudied
          /\ progress'.totalCorrect = progress.totalCorrect]_vars

\* C35 (violated under SpecCallback): in every session the answer stored at
\* position i was produced for the question at position i of that session (a
\* fill-in-the-blank answer carries the id of the card of its question), also
\* when its delayed callback fires after resetSession or a new startNewSession.
C35_AnswersAreForTheirQuestions ==
    \A i \in 1..Len(answers) :
        /\ i <= Len(questions)
        /\ answers[i].questionId = questions[i].cardId

\* C36: resetSession and startNewSession leave the tier and the performance
\* history of the difficulty manager as they were; the two change only in a
\* recordAnswer or a resetAdaptiveDifficulty, so the answers of an abandoned
\* session stay in the history.
C36_SessionOpsKeepDifficulty ==
    [][/\ (calls' # calls /\ lastCall'.op \in {"resetSession", "startNewSession"})
          => UNCHANGED <<currentDifficulty, performanceHistory>>
       /\ <<currentDifficulty, performanceHistory>>' # <<currentDifficulty, performanceHistory>>
          => lastCall'.op \in {"recordAnswer", "resetAdaptiveDifficulty"}]_vars

\* C36 witness: a session with a recorded answer has been abandoned, and the answer
\* is still in the performance history
C36_AbandonedAnswerStillCounts ==
    /\ lastCall.op = "resetSession"
    /\ currentSession = NoSession
    /\ answers = <<>>
    /\ Len(performanceHistory) >= 1

\* C37 (violated under Spec): no QuizResult with totalQuestions = 0 reaches the
\* progress tracker: a completeSession on a session without questions returns
\* null, and no stored session record is empty.
C37_NoEmptyQuizResult ==
    /\ (lastCall.op = "completeSession" /\ lastCall.result # Null)
       => lastCall.result[1].totalQuestions > 0
    /\ \A i \in 1..Len(progress.sessions) : progress.sessions[i].cardsStudied # <<>>

\* C38 (violated under SpecQuiz): when the timer of a multiple-choice question
\* has expired with no option selected, the answer then recorded for the question
\* is not counted as correct.
C38_TimedOutAnswerNotCorrect ==
    [][(/\ quizPage.quizMode = "multiple-choice"
        /\ questionView.timeouts > 0
        /\ Len(answers') = Len(answers) + 1)
       => ~answers'[Len(answers')].isCorrect]_vars

====
